---- MODULE Spec2Model ----
(***************************************************************************)
(* Model of the SkateHive account-manager service: the in-memory session   *)
(* store (lib/session-storage), and the account routes that use it         *)
(* (routes/accounts.ts: prepare-account, create-claimed-account).          *)
(*                                                                         *)
(* Time is the value of Date.now() in milliseconds.  Node runs handlers    *)
(* and timer callbacks one at a time: a handler runs without interruption  *)
(* up to its next await, so each action below is one such synchronous      *)
(* stretch of code.  The wall clock still advances while a stretch runs,   *)
(* so successive Date.now() reads inside one stretch may differ.           *)
(***************************************************************************)
EXTENDS Integers, Sequences, FiniteSets, TLC

(***************************************************************************)
(* Bounds of the model.                                                    *)
(***************************************************************************)
MaxSessions == 1        \* uuids handed out by randomUUID()
MaxPending == 2         \* requests suspended on an await at one time
MaxSyncDelay == 1       \* ms that may pass between two clock reads of one stretch of code
MaxFiles == 2           \* files the emergency directory is filled up to
MaxRouterFiles == 1     \* files at which a direct creation or a mark-delivered still writes one
MaxInFlight == 1      \* requests of RouterSpec suspended on an await at one time
MaxClock == 2           \* last millisecond of the runs on the emergency directory
MaxTimerLate == 1       \* ms by which Date.now() is past a timer's due time when its callback starts

(***************************************************************************)
(* Program constants.                                                      *)
(***************************************************************************)
SESSION_EXPIRY_MS == 15 * 60 * 1000
CLEANUP_BUFFER_MS == 60000
USED_RETENTION_MS == 60 * 60 * 1000

Names == {"skateuser", "otheruser"}
NewNames == {"skateuser"}   \* names asked for in Prepare and in a direct creation
Masters == {"P1"}
Creators == {"skatehive"}
Roles == {"owner", "active", "posting", "memo"}

\* Session ids a caller may present: 1..MaxSessions are the uuids randomUUID()
\* returns, in order; 0 is a well-formed uuid the service never returns.
SessionIds == 1..MaxSessions
AnyIds == 0..MaxSessions

Null == [null |-> TRUE]

(***************************************************************************)
(* Keys.  sha256 and the secp256k1 key pair are symbolic: a private key is *)
(* the seed string it is hashed from, the concatenation of the master      *)
(* password, the user name and the role; the public key names its private  *)
(* key.  The empty string is the empty sequence.                           *)
(***************************************************************************)
EmptyString == <<>>
derivePrivateKey(masterPassword, username, role) ==
  <<"5", masterPassword \o username \o role>>
createPublic(priv) == <<"STM", priv[2]>>
ForeignKey(role) == <<"STM", "Px" \o "intruder" \o role>>

\* An optional argument of a call: << >> when it is omitted, <<v>> when the
\* caller supplies the value v.
Omitted == << >>
Supplied(v) == <<v>>

\* The values of a JSON body are of several types (a string, a number, a
\* boolean, null); two of them are compared by their printed forms.
\* a === b
StrictEquals(a, b) == ToString(a) = ToString(b)

\* !v: JavaScript takes false, 0, null and the empty string for false (and
\* NaN, which no JSON text holds).
Falsy(v) ==
  ToString(v) \in {ToString(FALSE), ToString(0), ToString(Null), ToString(EmptyString),
                   ToString("")}

\* generateMasterPassword: "P" and 50 hex digits of randomBytes(32); random is
\* the value the random source yields for this call.
generateMasterPassword(random) == random

\* The caller's master passwords; "" is the empty string, and "P1s" with the
\* name "kateuser" spells the seeds of "P1" with "skateuser".
SeedValues == {"", "P1", "P2", "P1s"}
KeyNames == Names \cup {"kateuser"}
SeedArgs == {Omitted} \cup {Supplied(v) : v \in SeedValues}
\* Values of the random source; two draws never coincide.
FreshSeeds == {"R1", "R2"}

generateAccountKeysRandom(username, masterPassword, random) ==
  LET master == generateMasterPassword(random)
      k == [r \in Roles |-> derivePrivateKey(master, username, r)]
  IN [keys |-> [owner |-> k.owner, active |-> k.active, posting |-> k.posting,
                memo |-> k.memo, master_password |-> master],
      pubkeys |-> [r \in Roles |-> createPublic(k[r])]]

\* masterPassword || generateMasterPassword(): an omitted and an empty master
\* password are both falsy.
generateAccountKeys(username, masterPassword, random) ==
  LET master == IF masterPassword # Omitted /\ masterPassword[1] # ""
                THEN masterPassword[1]
                ELSE generateMasterPassword(random)
      k == [r \in Roles |-> derivePrivateKey(master, username, r)]
  IN [keys |-> [owner |-> k.owner, active |-> k.active, posting |-> k.posting,
                memo |-> k.memo, master_password |-> master],
      pubkeys |-> [r \in Roles |-> createPublic(k[r])]]

\* The key mappings a caller may supply: a generated bundle, as it is or with
\* the key of one role replaced by a key the service never generated.
Tampers == {"none"} \cup Roles
KeyInputs ==
  { [r \in Roles |-> IF r = t THEN ForeignKey(r) ELSE generateAccountKeys(n, Omitted, m).pubkeys[r]] :
      n \in Names, m \in Masters, t \in Tampers }

\* validateMasterPassword: re-derive and compare the four public keys.
validateMasterPassword(username, masterPassword, expectedPubkeys, random) ==
  LET pubkeys == generateAccountKeys(username, Supplied(masterPassword), random).pubkeys
  IN /\ pubkeys.owner = expectedPubkeys.owner
     /\ pubkeys.active = expectedPubkeys.active
     /\ pubkeys.posting = expectedPubkeys.posting
     /\ pubkeys.memo = expectedPubkeys.memo

VARIABLES
  clock,      \* Date.now()
  sessions,   \* the Map sessions: session id -> AccountSession
  issued,     \* number of uuids randomUUID() has returned
  timers,     \* pending setTimeout callbacks: [due, sid, kind]
  pending,    \* requests suspended on an await
  last,       \* the stretch of code that has just run (Idle in the event loop)
  consumed,   \* session id -> number of markSessionAsUsed calls that returned true
  broadcasts, \* session id -> number of session-mode broadcasts issued
  finalized,  \* session id -> the session-mode creation broadcast through it
  emergency,  \* the files of the emergency-recovery directory: file name -> content
  env         \* config.NODE_ENV, read once when the process starts

vars == <<clock, sessions, issued, timers, pending, last, consumed, broadcasts, finalized,
          emergency, env>>

(***************************************************************************)
(* lib/session-storage                                                     *)
(***************************************************************************)
Deleted(S, sid) == [i \in DOMAIN S \ {sid} |-> S[i]]
Stored(S, sid) == IF sid \in DOMAIN S THEN S[sid] ELSE Null

\* createAccountSession with a lifetime that includes the cleanup buffer.
createAccountSessionLong(S, T, sid, username, pubkeys, creatorAccount, now) ==
  LET session == [sessionId |-> sid, username |-> username, pubkeys |-> pubkeys,
                  createdAt |-> now,
                  expiresAt |-> now + SESSION_EXPIRY_MS + CLEANUP_BUFFER_MS,
                  used |-> FALSE, creatorAccount |-> creatorAccount]
  IN [ret |-> session,
      sessions |-> [i \in DOMAIN S \cup {sid} |-> IF i = sid THEN session ELSE S[i]],
      timers |-> T \cup {[due |-> now + SESSION_EXPIRY_MS + CLEANUP_BUFFER_MS,
                          sid |-> sid, kind |-> "expiry"]}]

\* createAccountSession that schedules no removal.
createAccountSessionNoTimer(S, T, sid, username, pubkeys, creatorAccount, now) ==
  LET session == [sessionId |-> sid, username |-> username, pubkeys |-> pubkeys,
                  createdAt |-> now, expiresAt |-> now + SESSION_EXPIRY_MS,
                  used |-> FALSE, creatorAccount |-> creatorAccount]
  IN [ret |-> session,
      sessions |-> [i \in DOMAIN S \cup {sid} |-> IF i = sid THEN session ELSE S[i]],
      timers |-> T]

\* createAccountSession: the new record, the map and the timers after it.
createAccountSession(S, T, sid, username, pubkeys, creatorAccount, now) ==
  LET session == [sessionId |-> sid, username |-> username, pubkeys |-> pubkeys,
                  createdAt |-> now, expiresAt |-> now + SESSION_EXPIRY_MS,
                  used |-> FALSE, creatorAccount |-> creatorAccount]
  IN [ret |-> session,
      sessions |-> [i \in DOMAIN S \cup {sid} |-> IF i = sid THEN session ELSE S[i]],
      timers |-> T \cup {[due |-> now + SESSION_EXPIRY_MS + CLEANUP_BUFFER_MS,
                          sid |-> sid, kind |-> "expiry"]}]

\* getAccountSession with the expiry test off by one (>= for >).
getAccountSessionInclusive(S, sid, now) ==
  IF sid \notin DOMAIN S THEN [ret |-> Null, sessions |-> S]
  ELSE IF now >= S[sid].expiresAt THEN [ret |-> Null, sessions |-> Deleted(S, sid)]
  ELSE [ret |-> S[sid], sessions |-> S]

\* getAccountSession without the expiry test.
getAccountSessionStale(S, sid, now) ==
  IF sid \notin DOMAIN S THEN [ret |-> Null, sessions |-> S]
  ELSE [ret |-> S[sid], sessions |-> S]

\* getAccountSession: the record or Null, and the map after the call.
getAccountSession(S, sid, now) ==
  IF sid \notin DOMAIN S THEN [ret |-> Null, sessions |-> S]
  ELSE IF now > S[sid].expiresAt THEN [ret |-> Null, sessions |-> Deleted(S, sid)]
  ELSE [ret |-> S[sid], sessions |-> S]

\* markSessionAsUsed that forgets to set the flag.
markSessionAsUsedNoFlip(S, T, sid, now) ==
  IF sid \notin DOMAIN S \/ S[sid].used \/ now > S[sid].expiresAt
  THEN [ret |-> FALSE, sessions |-> S, timers |-> T]
  ELSE [ret |-> TRUE, sessions |-> S,
        timers |-> T \cup {[due |-> now + USED_RETENTION_MS, sid |-> sid, kind |-> "used"]}]

\* markSessionAsUsed that does not test the flag.
markSessionAsUsedAgain(S, T, sid, now) ==
  IF sid \notin DOMAIN S \/ now > S[sid].expiresAt
  THEN [ret |-> FALSE, sessions |-> S, timers |-> T]
  ELSE [ret |-> TRUE,
        sessions |-> [S EXCEPT ![sid].used = TRUE],
        timers |-> T \cup {[due |-> now + USED_RETENTION_MS, sid |-> sid, kind |-> "used"]}]

\* markSessionAsUsed that also renews the lifetime of the session.
markSessionAsUsedRenew(S, T, sid, now) ==
  IF sid \notin DOMAIN S \/ S[sid].used \/ now > S[sid].expiresAt
  THEN [ret |-> FALSE, sessions |-> S, timers |-> T]
  ELSE [ret |-> TRUE,
        sessions |-> [S EXCEPT ![sid].used = TRUE, ![sid].expiresAt = now + SESSION_EXPIRY_MS],
        timers |-> T \cup {[due |-> now + USED_RETENTION_MS, sid |-> sid, kind |-> "used"]}]

\* markSessionAsUsed: the result, the map and the timers after the call.
markSessionAsUsed(S, T, sid, now) ==
  IF sid \notin DOMAIN S \/ S[sid].used \/ now > S[sid].expiresAt
  THEN [ret |-> FALSE, sessions |-> S, timers |-> T]
  ELSE [ret |-> TRUE,
        sessions |-> [S EXCEPT ![sid].used = TRUE],
        timers |-> T \cup {[due |-> now + USED_RETENTION_MS, sid |-> sid, kind |-> "used"]}]

\* validateSessionKeys that leaves the memo key out of the comparison.
validateSessionKeysNoMemo(S, sid, provided, now) ==
  LET g == getAccountSession(S, sid, now)
  IN IF g.ret = Null THEN [ret |-> FALSE, sessions |-> g.sessions]
     ELSE [ret |-> /\ g.ret.pubkeys.owner = provided.owner
                   /\ g.ret.pubkeys.active = provided.active
                   /\ g.ret.pubkeys.posting = provided.posting,
           sessions |-> g.sessions]

\* validateSessionKeys that marks the session it compares with as used.
validateSessionKeysConsuming(S, sid, provided, now) ==
  LET g == getAccountSession(S, sid, now)
  IN IF g.ret = Null THEN [ret |-> FALSE, sessions |-> g.sessions]
     ELSE [ret |-> /\ g.ret.pubkeys.owner = provided.owner
                   /\ g.ret.pubkeys.active = provided.active
                   /\ g.ret.pubkeys.posting = provided.posting
                   /\ g.ret.pubkeys.memo = provided.memo,
           sessions |-> [g.sessions EXCEPT ![sid].used = TRUE]]

\* validateSessionKeys: the result, and the map after the call.
validateSessionKeys(S, sid, provided, now) ==
  LET g == getAccountSession(S, sid, now)
  IN IF g.ret = Null THEN [ret |-> FALSE, sessions |-> g.sessions]
     ELSE [ret |-> /\ g.ret.pubkeys.owner = provided.owner
                   /\ g.ret.pubkeys.active = provided.active
                   /\ g.ret.pubkeys.posting = provided.posting
                   /\ g.ret.pubkeys.memo = provided.memo,
           sessions |-> g.sessions]

\* getSessionStats: expired before used before active.
getSessionStats(S, now) ==
  LET expired == {i \in DOMAIN S : now > S[i].expiresAt}
      used == {i \in DOMAIN S \ expired : S[i].used}
  IN [totalSessions |-> Cardinality(DOMAIN S),
      activeSessions |-> Cardinality((DOMAIN S \ expired) \ used),
      usedSessions |-> Cardinality(used),
      expiredSessions |-> Cardinality(expired)]

\* cleanupExpiredSessions that also removes a session at its expiresAt.
cleanupExpiredSessionsInclusive(S, now) ==
  LET expired == {i \in DOMAIN S : now >= S[i].expiresAt}
  IN [ret |-> Cardinality(expired), sessions |-> [i \in DOMAIN S \ expired |-> S[i]]]

\* cleanupExpiredSessions: the number of sessions removed, and the map after.
cleanupExpiredSessions(S, now) ==
  LET expired == {i \in DOMAIN S : now > S[i].expiresAt}
  IN [ret |-> Cardinality(expired), sessions |-> [i \in DOMAIN S \ expired |-> S[i]]]

(***************************************************************************)
(* lib/hive and lib/validators: what the routes use of them.               *)
(***************************************************************************)
HIVE_CREATOR == "skatehive"
Absent == -1

Authority(keyAuths, accountAuths) ==
  [weight_threshold |-> 1, account_auths |-> accountAuths, key_auths |-> keyAuths]

\* Request bodies of POST /create-claimed-account that pass
\* createClaimedAccountSchema.  The authorities carry the bundle generated for
\* the name; a variant changes one thing in it.
Variants == {"exact", "owner", "active", "posting", "memo", "extraKey", "acctAuth", "noKey"}

RoleKey(name, master, role, variant) ==
  IF variant = role THEN ForeignKey(role) ELSE generateAccountKeys(name, Omitted, master).pubkeys[role]

OwnerAuthority(name, master, variant) ==
  LET k == RoleKey(name, master, "owner", variant)
  IN CASE variant = "extraKey" -> Authority(<< <<k, 1>>, <<ForeignKey("owner"), 1>> >>, << >>)
       [] variant = "acctAuth" -> Authority(<< <<k, 1>> >>, << <<"intruder", 1>> >>)
       [] variant = "noKey" -> Authority(<< >>, << <<"intruder", 1>> >>)
       [] OTHER -> Authority(<< <<k, 1>> >>, << >>)

CreateBody(sid, confirmed, name, master, variant) ==
  [session_id |-> sid, confirmed |-> confirmed, new_account_name |-> name,
   owner |-> OwnerAuthority(name, master, variant),
   active |-> Authority(<< <<RoleKey(name, master, "active", variant), 1>> >>, << >>),
   posting |-> Authority(<< <<RoleKey(name, master, "posting", variant), 1>> >>, << >>),
   memo_key |-> RoleKey(name, master, "memo", variant),
   json_metadata |-> "{}", private_keys |-> Omitted]

\* The same request with the optional private_keys of the account supplied.
WithPrivateKeys(body, master) ==
  [body EXCEPT !.private_keys =
     Supplied([r \in Roles |-> derivePrivateKey(master, body.new_account_name, r)])]

Malformed == [malformed |-> TRUE]
IsMalformed(b) == "malformed" \in DOMAIN b

SessionBodies ==
  { CreateBody(sid, TRUE, n, m, v) : sid \in AnyIds, n \in Names, m \in Masters, v \in Variants }
DirectBodies ==
  { CreateBody(Absent, c, n, m, "exact") : c \in BOOLEAN, n \in NewNames, m \in Masters }
CreateBodies == SessionBodies \cup DirectBodies \cup {Malformed}

PrepareBodies ==
  { [new_account_name |-> n, creator_account |-> c] : n \in NewNames, c \in Creators }
    \cup {Malformed}

\* createClaimedAccount: the operation handed to client.broadcast.sendOperations.
createClaimedAccount(params) ==
  [creator |-> HIVE_CREATOR, new_account_name |-> params.new_account_name,
   owner |-> params.owner, active |-> params.active, posting |-> params.posting,
   memo_key |-> params.memo_key, json_metadata |-> params.json_metadata]

\* What client.database.getAccounts([accountName]) may do: resolve with no
\* account, resolve with the account of that name, or reject.
GetAccounts == {[length |-> 0], [length |-> 1], [rejected |-> TRUE]}

\* isAccountAvailable that takes a failed lookup for a free name.
isAccountAvailableOptimistic(accounts) ==
  IF "length" \in DOMAIN accounts THEN accounts.length = 0 ELSE TRUE

\* isAccountAvailable: the catch block returns false.
isAccountAvailable(accounts) ==
  IF "length" \in DOMAIN accounts THEN accounts.length = 0 ELSE FALSE

\* What the ledger may answer to a broadcast: a transaction id, or an error
\* with a message; "has" lists the fragments the routes look for in it.
Confirmed == [id |-> <<"tx", 1>>]
UpstreamErrors ==
  { [message |-> "creator has no claimed accounts", has |-> {"no claimed accounts"}],
    [message |-> "creator has 0 pending claimed accounts",
     has |-> {"pending claimed accounts"}],
    [message |-> "account name already exists", has |-> {"already exists"}],
    [message |-> "name is taken", has |-> {"taken"}],
    [message |-> "name is taken or creator has no claimed accounts",
     has |-> {"taken", "no claimed accounts"}],
    [message |-> "request timed out", has |-> {}] }
Includes(err, fragment) == fragment \in err.has

(***************************************************************************)
(* routes/accounts.ts                                                      *)
(***************************************************************************)
Error(status, error, message) == [status |-> status, error |-> error, message |-> message]

\* The x-signer-token header of a request: absent, or a string.
SIGNER_TOKEN == "signer-token"
Headers == {Omitted, Supplied("other-token"), Supplied(SIGNER_TOKEN)}

\* authMiddleware that lets every request through.
authMiddlewareOpen(token) == Null

\* authMiddleware: the 401 response, or Null when it calls next().
authMiddleware(token) ==
  IF token = Omitted \/ token[1] = ""
  THEN Error(401, "Unauthorized", "Missing x-signer-token header")
  ELSE IF token[1] # SIGNER_TOKEN
  THEN Error(401, "Unauthorized", "Invalid x-signer-token")
  ELSE Null

\* accountOperationsLimiter: the 429 response when the caller's address has
\* used up its 30 requests of the window, or Null when it calls next().
accountOperationsLimiter(limited) ==
  IF limited
  THEN Error(429, "Too Many Requests",
             "Account operations rate limit exceeded. Please try again later.")
  ELSE Null

\* router.use(authMiddleware); router.use(accountOperationsLimiter): the
\* response of the first one that answers, or Null when the route handler runs.
Middleware(token, limited) ==
  IF authMiddleware(token) # Null THEN authMiddleware(token)
  ELSE accountOperationsLimiter(limited)

ValidationFailed ==
  [status |-> 400, error |-> "Validation Error", message |-> "Invalid request parameters"]
NameTaken ==
  [status |-> 400, error |-> "Validation Error", message |-> "Account name is already taken",
   field |-> "new_account_name"]

FirstKey(authority) ==
  IF Len(authority.key_auths) >= 1 THEN authority.key_auths[1][1] ELSE EmptyString

providedPubkeys(validatedData) ==
  [owner |-> FirstKey(validatedData.owner), active |-> FirstKey(validatedData.active),
   posting |-> FirstKey(validatedData.posting), memo |-> validatedData.memo_key]

IsSessionMode(validatedData) ==
  validatedData.session_id # Absent /\ validatedData.confirmed = TRUE

\* The route's tests on the session it found.
AlreadyUsedNever(session) == FALSE
AlreadyUsed(session) == session.used

NameMismatchNever(session, validatedData) == FALSE
NameMismatch(session, validatedData) == session.username # validatedData.new_account_name

\* An outcome of the first stretch of POST /create-claimed-account: the store
\* after it, the clock read last, and either a response or the await it stops at.
Outcome(S, T, now, next, resp, session, marked) ==
  [sessions |-> S, timers |-> T, now |-> now, next |-> next, resp |-> resp,
   session |-> session, marked |-> marked]

\* The session branch; now1, now2 and now3 are the values Date.now() has in
\* getAccountSession, validateSessionKeys and markSessionAsUsed.
SessionBranch(S, T, validatedData, now1, now2, now3) ==
  LET sid == validatedData.session_id
      g == getAccountSession(S, sid, now1)
      v == validateSessionKeys(g.sessions, sid, providedPubkeys(validatedData), now2)
      m == markSessionAsUsed(v.sessions, T, sid, now3)
  IN IF g.ret = Null
     THEN Outcome(g.sessions, T, now1, "done",
                  Error(400, "Invalid Session",
                        "Session not found or expired. Please generate keys again."),
                  Null, FALSE)
     ELSE IF AlreadyUsed(g.ret)
     THEN Outcome(g.sessions, T, now1, "done",
                  Error(400, "Session Already Used",
                        "This session has already been used to create an account."),
                  g.ret, FALSE)
     ELSE IF NameMismatch(g.ret, validatedData)
     THEN Outcome(g.sessions, T, now1, "done",
                  Error(400, "Session Mismatch",
                        "Account name does not match the prepared session."),
                  g.ret, FALSE)
     ELSE IF ~v.ret
     THEN Outcome(v.sessions, T, now2, "done",
                  Error(400, "Key Mismatch",
                        "Provided public keys do not match the prepared session."),
                  g.ret, FALSE)
     ELSE IF ~m.ret
     THEN Outcome(m.sessions, m.timers, now3, "done",
                  Error(400, "Session Error",
                        "Failed to mark session as used. Session may be expired or already used."),
                  g.ret, FALSE)
     ELSE Outcome(m.sessions, m.timers, now3, "broadcast", Null, g.ret, TRUE)

\* POST /create-claimed-account up to its first await.
CreateClaimedAccountRoute(S, T, body, now1, now2, now3) ==
  IF IsMalformed(body) THEN Outcome(S, T, now1, "done", ValidationFailed, Null, FALSE)
  ELSE IF IsSessionMode(body) THEN SessionBranch(S, T, body, now1, now2, now3)
  ELSE Outcome(S, T, now1, "available", Null, Null, FALSE)

\* A catch block that answers every error of the broadcast without its message.
BroadcastErrorBare(err) ==
  [status |-> 502, error |-> "Blockchain Error",
   message |-> "Failed to create account on Hive blockchain", details |-> "Unknown error"]

\* A catch block that looks for the name fragments before the credit ones.
BroadcastErrorNameFirst(err) ==
  IF Includes(err, "already exists") \/ Includes(err, "taken")
  THEN [status |-> 400, error |-> "Validation Error",
        message |-> "Account name is already taken", hive_error |-> err.message]
  ELSE IF Includes(err, "no claimed accounts") \/ Includes(err, "pending claimed accounts")
  THEN [status |-> 502, error |-> "No Claimed Accounts",
        message |-> "Creator has no claimed account credits available. Please claim an account first.",
        hive_error |-> err.message]
  ELSE [status |-> 502, error |-> "Blockchain Error",
        message |-> "Failed to create account on Hive blockchain", details |-> err.message]

\* The catch block of POST /create-claimed-account for an error of the broadcast.
BroadcastError(err) ==
  IF Includes(err, "no claimed accounts") \/ Includes(err, "pending claimed accounts")
  THEN [status |-> 502, error |-> "No Claimed Accounts",
        message |-> "Creator has no claimed account credits available. Please claim an account first.",
        hive_error |-> err.message]
  ELSE IF Includes(err, "already exists") \/ Includes(err, "taken")
  THEN [status |-> 400, error |-> "Validation Error",
        message |-> "Account name is already taken", hive_error |-> err.message]
  ELSE [status |-> 502, error |-> "Blockchain Error",
        message |-> "Failed to create account on Hive blockchain", details |-> err.message]

\* What the handler passes to storeEmergencyKeys after the broadcast, Null
\* when the request carries no private_keys.
EscrowOf(validatedData) ==
  IF validatedData.private_keys = Omitted THEN Null
  ELSE [keys |-> validatedData.private_keys[1],
        publicKeys |-> [owner |-> FirstKey(validatedData.owner),
                        active |-> FirstKey(validatedData.active),
                        posting |-> FirstKey(validatedData.posting),
                        memo |-> validatedData.memo_key]]

Created(accountName, txId) ==
  [status |-> 201, success |-> TRUE, transaction_id |-> txId,
   account_name |-> accountName,
   message |-> "Account created successfully"]

(***************************************************************************)
(* lib/emergency-storage: one JSON file per stored bundle in the directory *)
(* emergency-recovery.  A file name is `${stamp}-${accountName}-keys.json`,*)
(* the stamp being an ISO instant with ':' and '.' replaced by '-'.        *)
(***************************************************************************)
\* Date.toISOString and its inverse new Date(iso): an ISO string names its
\* millisecond.
toISOString(ms) == [iso |-> ms]
DateParse(iso) == iso.iso
\* iso.replace(/[:.]/g, '-'): 24 characters of digits, 'T', 'Z' and '-';
\* stamps compare as strings the way their milliseconds compare as numbers.
FileStamp(iso) == iso.iso

\* The account names the directory is exercised with, and their characters.
CacheNames == {"user", "skate-user", "skateuser"}
Spelling(name) ==
  CASE name = "user" -> <<"u", "s", "e", "r">>
    [] name = "skate-user" -> <<"s", "k", "a", "t", "e", "-", "u", "s", "e", "r">>
    [] name = "skateuser" -> <<"s", "k", "a", "t", "e", "u", "s", "e", "r">>
    [] name = "otheruser" -> <<"o", "t", "h", "e", "r", "u", "s", "e", "r">>
KeysJson == <<"-", "k", "e", "y", "s", ".", "j", "s", "o", "n">>

\* UTF-16 code unit order of the characters that occur after the stamp.
Alphabet ==
  <<"-", ".", "0", "1", "2", "3", "4", "5", "6", "7", "8", "9",
    "a", "b", "c", "d", "e", "f", "g", "h", "i", "j", "k", "l", "m",
    "n", "o", "p", "q", "r", "s", "t", "u", "v", "w", "x", "y", "z">>
CodeUnit(c) == CHOOSE i \in 1..Len(Alphabet) : Alphabet[i] = c

RECURSIVE StringLess(_, _)
StringLess(a, b) ==
  IF b = << >> THEN FALSE
  ELSE IF a = << >> THEN TRUE
  ELSE IF Head(a) # Head(b) THEN CodeUnit(Head(a)) < CodeUnit(Head(b))
  ELSE StringLess(Tail(a), Tail(b))

StringIncludes(s, p) ==
  \E i \in 0..(Len(s) - Len(p)) : SubSeq(s, i + 1, i + Len(p)) = p

FileName(stamp, accountName) == [stamp |-> stamp, name |-> accountName]
\* The characters of a file name after its stamp.
AfterStamp(accountName) == <<"-">> \o Spelling(accountName) \o KeysJson

\* Array.prototype.sort() on file names: by stamp, then by what follows it.
FileLess(f, g) ==
  \/ f.stamp < g.stamp
  \/ f.stamp = g.stamp /\ StringLess(AfterStamp(f.name), AfterStamp(g.name))

\* file.includes(`-${accountName}-keys.json`).  An account name starts with
\* a lowercase letter, which no character of the stamp is: a match lies in
\* the part of the file name after the stamp.
FileIncludes(f, accountName) == StringIncludes(AfterStamp(f.name), AfterStamp(accountName))

\* writeFileSync(filepath, JSON.stringify(data)): creates or replaces.
Written(E, f, data) == [g \in DOMAIN E \cup {f} |-> IF g = f THEN data ELSE E[g]]

\* Bytes of the JSON text that are in the file when writeFileSync throws
\* part-way (a full disk, a file size limit): every one is short of the
\* whole text, which with four private and four public keys is longer.
WriteCuts == {0, 100, 400}
\* What an I/O call of storeEmergencyKeys may do: "none" throws nothing;
\* "open" is mkdirSync or the open of writeFileSync throwing, before the file
\* exists; "write" is writeFileSync throwing after it has opened the file,
\* which creates it or truncates it, and has written the first bytes of the
\* text.
Faults ==
  {[kind |-> "none"], [kind |-> "open"]}
    \cup {[kind |-> "write", bytes |-> n] : n \in WriteCuts}
\* A file that holds the first n bytes of a JSON text and not all of it.
Truncated(n) == [unparseable |-> TRUE, bytes |-> n]
\* JSON.parse(readFileSync(filepath)) returns a record.
Parseable(data) == "unparseable" \notin DOMAIN data

\* storeEmergencyKeys that lets the error of a failed I/O call escape.
storeEmergencyKeysThrowing(E, accountName, transactionId, keys, publicKeys, t1, t2, t3, fault) ==
  IF fault.kind = "open" THEN [emergency |-> E, threw |-> TRUE]
  ELSE IF fault.kind = "write"
  THEN [emergency |-> Written(E, FileName(FileStamp(toISOString(t3)), accountName),
                              Truncated(fault.bytes)),
        threw |-> TRUE]
  ELSE [emergency |->
          Written(E, FileName(FileStamp(toISOString(t3)), accountName),
                  [accountName |-> accountName, transactionId |-> transactionId,
                   timestamp |-> toISOString(t1), createdAt |-> t2, keys |-> keys,
                   publicKeys |-> publicKeys, status |-> "created"]),
        threw |-> FALSE]

\* storeEmergencyKeys that never writes the file.
storeEmergencyKeysSkipping(E, accountName, transactionId, keys, publicKeys, t1, t2, t3, fault) ==
  [emergency |-> E, threw |-> FALSE]

\* storeEmergencyKeys: t1, t2 and t3 are its three readings of the clock;
\* the catch block swallows the error of a failed I/O call.
storeEmergencyKeys(E, accountName, transactionId, keys, publicKeys, t1, t2, t3, fault) ==
  IF fault.kind = "open" THEN [emergency |-> E, threw |-> FALSE]
  ELSE IF fault.kind = "write"
  THEN [emergency |-> Written(E, FileName(FileStamp(toISOString(t3)), accountName),
                              Truncated(fault.bytes)),
        threw |-> FALSE]
  ELSE [emergency |->
          Written(E, FileName(FileStamp(toISOString(t3)), accountName),
                  [accountName |-> accountName, transactionId |-> transactionId,
                   timestamp |-> toISOString(t1), createdAt |-> t2, keys |-> keys,
                   publicKeys |-> publicKeys, status |-> "created"]),
        threw |-> FALSE]

\* retrieveEmergencyKeys: the content of the last of the matching file names
\* in sort order, or null when JSON.parse throws on it.
retrieveEmergencyKeys(E, accountName) ==
  LET accountFiles == {f \in DOMAIN E : FileIncludes(f, accountName)}
      newest == CHOOSE f \in accountFiles : \A g \in accountFiles : g = f \/ FileLess(g, f)
  IN IF accountFiles = {} THEN Null
     ELSE IF Parseable(E[newest]) THEN E[newest]
     ELSE Null

\* markKeysAsDelivered reaches its writeFileSync: the newest file of the
\* account parses and carries the transaction id.
MarkWrites(E, accountName, transactionId) ==
  LET keyData == retrieveEmergencyKeys(E, accountName)
  IN keyData # Null /\ StrictEquals(keyData.transactionId, transactionId)

\* markKeysAsDelivered: the file written is named after the record's
\* timestamp field and the account name asked for; the catch block swallows
\* the error of a failed writeFileSync, which leaves what it has written.
markKeysAsDelivered(E, accountName, transactionId, fault) ==
  LET keyData == retrieveEmergencyKeys(E, accountName)
      file == FileName(FileStamp(toISOString(DateParse(keyData.timestamp))), accountName)
  IN IF ~MarkWrites(E, accountName, transactionId) \/ fault.kind = "open" THEN E
     ELSE IF fault.kind = "write" THEN Written(E, file, Truncated(fault.bytes))
     ELSE Written(E, file, [keyData EXCEPT !.status = "delivered"])

\* readdirSync(EMERGENCY_DIR): the file names in an order the file system
\* chooses.
Readdir(E) ==
  {order \in [1..Cardinality(DOMAIN E) -> DOMAIN E] :
     \A i, j \in DOMAIN order : order[i] = order[j] => i = j}

\* Math.round(ageHours * 10) for the age of a record read at now: its age in
\* tenths of an hour; ageHours is that count divided by ten.
AgeTenths(createdAt, now) == (2 * (now - createdAt) + 360000) \div 720000

\* What listStoredAccounts keeps of one file.
Summary(E, file, now) ==
  [accountName |-> E[file].accountName, transactionId |-> E[file].transactionId,
   timestamp |-> E[file].timestamp, ageHours |-> AgeTenths(E[file].createdAt, now),
   status |-> E[file].status, filename |-> file]

\* sort((a, b) => b.timestamp.localeCompare(a.timestamp)), a stable sort:
\* an element goes behind those whose timestamp is not earlier than its own.
RECURSIVE NewestFirst(_)
NewestFirst(list) ==
  IF list = << >> THEN << >>
  ELSE LET n == Len(list)
           x == list[n]
           sorted == NewestFirst(SubSeq(list, 1, n - 1))
           k == Cardinality({i \in 1..Len(sorted) :
                               DateParse(sorted[i].timestamp) >= DateParse(x.timestamp)})
       IN SubSeq(sorted, 1, k) \o <<x>> \o SubSeq(sorted, k + 1, Len(sorted))

\* The positions of a directory listing whose file JSON.parse accepts: the
\* map returns null for the others and filter(Boolean) drops them.
Parsed(E, order) ==
  SelectSeq([i \in 1..Len(order) |-> i], LAMBDA i : Parseable(E[order[i]]))

\* The Date.now() readings of one pass of listStoredAccounts over the
\* directory listing order, begun at from: the callback of map reads the
\* clock once for every file, after JSON.parse has accepted it, and not at
\* all for a file that JSON.parse rejects.  reads[i] is the reading made for
\* order[i]; at the position of a rejected file it repeats the reading
\* before it.
ListReads(E, order, from, reads) ==
  /\ DOMAIN reads = 1..Len(order)
  /\ \A i \in 1..Len(order) :
        LET prev == IF i = 1 THEN from ELSE reads[i - 1]
        IN IF Parseable(E[order[i]])
           THEN prev <= reads[i] /\ reads[i] <= prev + MaxSyncDelay
           ELSE reads[i] = prev

\* The last clock reading of a pass that began at from.
LastRead(from, reads) == IF Len(reads) = 0 THEN from ELSE reads[Len(reads)]

\* listStoredAccounts that returns the summaries in directory order.
listStoredAccountsUnsorted(E, order, reads) ==
  [k \in 1..Len(Parsed(E, order)) |->
     Summary(E, order[Parsed(E, order)[k]], reads[Parsed(E, order)[k]])]

\* listStoredAccounts: order is what readdirSync returned, reads[i] what
\* Date.now() returns in the callback that reads order[i].
listStoredAccounts(E, order, reads) ==
  NewestFirst([k \in 1..Len(Parsed(E, order)) |->
                 Summary(E, order[Parsed(E, order)[k]], reads[Parsed(E, order)[k]])])

(***************************************************************************)
(* routes/accounts.ts: claim-account and the development-only routes.      *)
(***************************************************************************)
\* claimAccount: the operation handed to client.broadcast.sendOperations.
claimAccount ==
  [creator |-> HIVE_CREATOR, fee |-> "0.000 HIVE", extensions |-> << >>]

\* What the ledger may answer to a claim besides a transaction id.
ClaimErrors ==
  { [message |-> "not enough RC mana", has |-> {"RC"}],
    [message |-> "request timed out", has |-> {}] }

Claimed(txId) ==
  [status |-> 200, success |-> TRUE, transaction_id |-> txId,
   message |-> "Account claim successful. You can now create a claimed account."]

\* The catch block of POST /claim-account.
ClaimError(err) ==
  IF Includes(err, "bandwidth") \/ Includes(err, "RC")
  THEN [status |-> 502, error |-> "Insufficient Resources",
        message |-> "Creator account has insufficient Resource Credits (RC) to claim an account.",
        hive_error |-> err.message]
  ELSE [status |-> 502, error |-> "Blockchain Error",
        message |-> "Failed to claim account on Hive blockchain", details |-> err.message]

NotFound == [status |-> 404, error |-> "Not Found"]

\* A guard that takes no deployment for a production deployment.
InProductionNever(e) == FALSE

\* config.NODE_ENV === 'production'
InProduction(e) == e = "production"

\* GET /session-stats; now1, now2 and now3 are the clock readings of
\* getSessionStats, cleanupExpiredSessions and the response.
SessionStatsRoute(e, S, now1, now2, now3) ==
  IF InProduction(e) THEN [sessions |-> S, resp |-> NotFound]
  ELSE [sessions |-> cleanupExpiredSessions(S, now2).sessions,
        resp |-> [status |-> 200, success |-> TRUE, stats |-> getSessionStats(S, now1),
                  cleaned_expired_sessions |-> cleanupExpiredSessions(S, now2).ret,
                  timestamp |-> toISOString(now3)]]

\* GET /emergency-recovery/list answering with the stored records themselves.
EmergencyListRouteFull(e, E, order, reads) ==
  IF InProduction(e) THEN NotFound
  ELSE [status |-> 200, success |-> TRUE, count |-> Len(order),
        accounts |-> [i \in 1..Len(order) |-> E[order[i]]],
        warning |-> "These are emergency backup keys. Clean up delivered keys regularly."]

\* GET /emergency-recovery/list; ageHours counts tenths of an hour, each
\* from the clock reading made for its file.
EmergencyListRoute(e, E, order, reads) ==
  IF InProduction(e) THEN NotFound
  ELSE LET accounts == listStoredAccounts(E, order, reads)
       IN [status |-> 200, success |-> TRUE, count |-> Len(accounts),
           accounts |-> [i \in 1..Len(accounts) |->
                           [accountName |-> accounts[i].accountName,
                            transactionId |-> accounts[i].transactionId,
                            timestamp |-> accounts[i].timestamp,
                            ageHours |-> accounts[i].ageHours,
                            status |-> accounts[i].status,
                            expired |-> accounts[i].ageHours > 72 * 10]],
           warning |-> "These are emergency backup keys. Clean up delivered keys regularly."]

\* GET /emergency-recovery/:accountName.  The status of the record is the
\* field keyStatus here, status being the HTTP status.
EmergencyRetrieveRoute(e, E, accountName, now) ==
  IF InProduction(e) THEN NotFound
  ELSE IF accountName = ""
  THEN Error(400, "Validation Error", "Account name is required")
  ELSE LET keyData == retrieveEmergencyKeys(E, accountName)
       IN IF keyData = Null
          THEN Error(404, "Not Found", <<"No emergency keys found for account: ", accountName>>)
          ELSE [status |-> 200, success |-> TRUE, accountName |-> keyData.accountName,
                transactionId |-> keyData.transactionId, timestamp |-> keyData.timestamp,
                ageHours |-> AgeTenths(keyData.createdAt, now),
                keyStatus |-> keyData.status,
                expired |-> (now - keyData.createdAt) > 72 * 1000 * 60 * 60,
                keys |-> keyData.keys, publicKeys |-> keyData.publicKeys,
                warning |-> "SENSITIVE: These are private keys. Handle with extreme care."]

\* !transactionId: the body has no transactionId, or one that JavaScript
\* takes for false.
NoTransactionId(transactionId) ==
  transactionId = Omitted \/ Falsy(transactionId[1])

\* req.body is undefined: no body of the request was parsed.
NoBody == <<"req.body", "undefined">>

\* POST /emergency-recovery/:accountName/mark-delivered; transactionId is
\* the optional field of the request body, or NoBody: the destructuring of
\* an undefined req.body throws inside the try block and the catch block
\* answers.
EmergencyMarkDeliveredRoute(e, E, accountName, transactionId, fault) ==
  IF InProduction(e) THEN [emergency |-> E, resp |-> NotFound]
  ELSE IF transactionId = NoBody
  THEN [emergency |-> E,
        resp |-> Error(500, "Internal Server Error", "Failed to mark keys as delivered")]
  ELSE IF accountName = ""
  THEN [emergency |-> E,
        resp |-> Error(400, "Validation Error", "Account name is required")]
  ELSE IF NoTransactionId(transactionId)
  THEN [emergency |-> E,
        resp |-> Error(400, "Validation Error", "Transaction ID is required")]
  ELSE [emergency |-> markKeysAsDelivered(E, accountName, transactionId[1], fault),
        resp |-> [status |-> 200, success |-> TRUE,
                  message |-> <<"Keys for ", accountName, " marked as delivered">>,
                  reminder |-> "Remember to manually clean up the key file when no longer needed"]]

(***************************************************************************)
(* The event loop: the clock, the timers and the handlers.                 *)
(***************************************************************************)
Idle == [op |-> "idle"]
NotFinalized == [result |-> "none"]

\* NODE_ENV: z.enum(['development', 'production', 'test']).default('development')
Envs == {"development", "production", "test"}

\* The process after start-up with NODE_ENV = e.
Started(e) ==
  /\ env = e
  /\ clock = 0
  /\ sessions = << >>
  /\ issued = 0
  /\ timers = {}
  /\ pending = << >>
  /\ last = Idle
  /\ consumed = [i \in SessionIds |-> 0]
  /\ broadcasts = [i \in SessionIds |-> 0]
  /\ finalized = [i \in SessionIds |-> NotFinalized]
  /\ emergency = << >>

\* NODE_ENV is not set: the default applies.
Init == Started("development")

\* The comparisons the code makes with Date.now() change their result only at
\* a session's expiresAt and the millisecond after it; a timer's callback can
\* run while Date.now() is still short of its due time by what passed between
\* the two clock reads of the arming stretch (see TimerFire): the clock
\* advances from one such instant to a later one.
Instants ==
  {sessions[i].expiresAt : i \in DOMAIN sessions}
    \cup {sessions[i].expiresAt + 1 : i \in DOMAIN sessions}
    \cup {t.due - k : t \in timers, k \in 0..MaxSyncDelay}

\* What a later Date.now() of the same stretch may return after one returned now.
LaterReads(now) == {now} \cup {t \in Instants : now < t /\ t <= now + MaxSyncDelay}

Tick(t) ==
  /\ last = Idle
  /\ t \in Instants
  /\ t > clock
  /\ clock' = t
  /\ UNCHANGED <<env, sessions, issued, timers, pending, last, consumed, broadcasts, finalized, emergency>>

\* Date.now() passes the due time of a timer that is still armed: the loop
\* wakes up when the timer has run out on its own clock and starts the
\* callback after that, k ms past the due time by Date.now(), also when
\* nothing else is on the loop.
TickPast(t, k) ==
  /\ last = Idle
  /\ t \in timers
  /\ clock < t.due + k
  /\ clock' = t.due + k
  /\ UNCHANGED <<env, sessions, issued, timers, pending, last, consumed, broadcasts, finalized, emergency>>

\* The stretch that has just run returns to the event loop.
Return ==
  /\ last # Idle
  /\ last' = Idle
  /\ UNCHANGED <<env, clock, sessions, issued, timers, pending, consumed, broadcasts, finalized, emergency>>

\* A setTimeout callback of the session store: sessions.delete(sessionId).
\* setTimeout counts the delay from the time the event loop read before it
\* started the stretch that arms the timer; t.due counts it from the
\* Date.now() that stretch read afterwards.  The two reads belong to one
\* stretch and are at most MaxSyncDelay ms apart: Date.now() can be that
\* much short of t.due when the callback runs, and nothing bounds how long
\* after t.due a busy loop gets to it.
TimerFire(t) ==
  /\ last = Idle
  /\ t \in timers
  /\ clock + MaxSyncDelay >= t.due
  /\ timers' = timers \ {t}
  /\ sessions' = Deleted(sessions, t.sid)
  /\ last' = [op |-> "timer", sid |-> t.sid, kind |-> t.kind, now |-> clock,
              session |-> Stored(sessions, t.sid)]
  /\ UNCHANGED <<env, clock, issued, pending, consumed, broadcasts, finalized, emergency>>

Without(q, i) == [j \in 1..(Len(q) - 1) |-> IF j < i THEN q[j] ELSE q[j + 1]]
Bump(f, sid) == IF sid \in DOMAIN f THEN [f EXCEPT ![sid] = @ + 1] ELSE f

\* What a suspended handler of POST /create-claimed-account still uses of its
\* validated request: the name, the session it went through (Absent for a
\* direct creation), the session_id the body carried and, until the broadcast
\* is issued, the operation to send.
Suspended(body, await) ==
  [route |-> "create", await |-> await, name |-> body.new_account_name,
   sid |-> IF IsSessionMode(body) THEN body.session_id ELSE Absent,
   session_id |-> body.session_id,
   op |-> IF await = "broadcast" THEN Null ELSE createClaimedAccount(body),
   escrow |-> EscrowOf(body)]

\* A middleware answers a request to the router, whatever its path: no route
\* handler runs.
Refused(route, token, limited) ==
  /\ last = Idle
  /\ Middleware(token, limited) # Null
  /\ last' = [op |-> "refused", route |-> route, token |-> token,
              resp |-> Middleware(token, limited)]
  /\ UNCHANGED <<env, clock, sessions, issued, timers, pending, consumed, broadcasts,
                 finalized, emergency>>

\* POST /create-claimed-account arrives and runs to its first await or to its
\* response.
CreateClaimedAccountStart(token, limited, body, now2, now3) ==
  /\ last = Idle
  /\ Middleware(token, limited) = Null
  /\ now2 \in LaterReads(clock)
  /\ now3 \in LaterReads(now2)
  /\ LET o == CreateClaimedAccountRoute(sessions, timers, body, clock, now2, now3)
     IN /\ o.next # "done" => Len(pending) < MaxPending
        /\ clock' = o.now
        /\ sessions' = o.sessions
        /\ timers' = o.timers
        /\ consumed' = IF o.marked THEN Bump(consumed, body.session_id) ELSE consumed
        /\ broadcasts' = IF o.next = "broadcast" THEN Bump(broadcasts, body.session_id)
                         ELSE broadcasts
        /\ finalized' = IF o.next = "broadcast" /\ body.session_id \in DOMAIN finalized
                        THEN [finalized EXCEPT ![body.session_id] =
                                [result |-> "issued", name |-> body.new_account_name,
                                 pubkeys |-> providedPubkeys(body),
                                 expiresAt |-> o.session.expiresAt]]
                        ELSE finalized
        /\ pending' = IF o.next = "done" THEN pending
                      ELSE Append(pending, Suspended(body, o.next))
        /\ last' = [op |-> "create", token |-> token, body |-> body, now |-> clock,
                    until |-> o.now,
                    stored |-> IF IsMalformed(body) THEN Null
                               ELSE Stored(sessions, body.session_id),
                    session |-> o.session, resp |-> o.resp, next |-> o.next,
                    sent |-> IF o.next = "broadcast" THEN createClaimedAccount(body) ELSE Null,
                    same |-> (o.sessions = sessions /\ o.timers = timers)]
  /\ UNCHANGED <<env, issued, emergency>>

\* The lookup of isAccountAvailable settles for a direct creation: the name
\* is taken, or the broadcast is issued.
CreateClaimedAccountAvailable(i, accounts) ==
  /\ last = Idle
  /\ i \in 1..Len(pending)
  /\ pending[i].route = "create" /\ pending[i].await = "available"
  /\ pending' = IF isAccountAvailable(accounts)
                THEN [pending EXCEPT ![i].await = "broadcast", ![i].op = Null]
                ELSE Without(pending, i)
  /\ last' = [op |-> "available", name |-> pending[i].name,
              session_id |-> pending[i].session_id,
              accounts |-> accounts, available |-> isAccountAvailable(accounts),
              resp |-> IF isAccountAvailable(accounts) THEN Null ELSE NameTaken,
              sent |-> IF isAccountAvailable(accounts) THEN pending[i].op ELSE Null]
  /\ UNCHANGED <<env, clock, sessions, issued, timers, consumed, broadcasts, finalized, emergency>>

\* The rest of POST /create-claimed-account once the broadcast has resolved
\* with a transaction id or rejected with an error.  t1, t2 and t3 are the
\* clock readings of storeEmergencyKeys.
CreateClaimedAccountBroadcast(E, request, result, t1, t2, t3, fault) ==
  IF "id" \notin DOMAIN result
  THEN [emergency |-> E, stores |-> FALSE, resp |-> BroadcastError(result)]
  ELSE IF request.escrow = Null
  THEN [emergency |-> E, stores |-> FALSE, resp |-> Created(request.name, result.id)]
  ELSE [emergency |-> storeEmergencyKeys(E, request.name, result.id, request.escrow.keys,
                                         request.escrow.publicKeys, t1, t2, t3,
                                         fault).emergency,
        stores |-> TRUE, resp |-> Created(request.name, result.id)]

\* The broadcast resolves or rejects.
CreateClaimedAccountDone(i, result) ==
  /\ last = Idle
  /\ i \in 1..Len(pending)
  /\ pending[i].route = "create" /\ pending[i].await = "broadcast"
  /\ \E t1 \in LaterReads(clock), fault \in Faults :
       \E t2 \in LaterReads(t1) :
         \E t3 \in LaterReads(t2) :
           LET o == CreateClaimedAccountBroadcast(emergency, pending[i], result,
                                                  t1, t2, t3, fault)
           IN /\ ~o.stores => (t3 = clock /\ fault.kind = "none")
              /\ (o.stores /\ fault.kind # "open") => Cardinality(DOMAIN emergency) < MaxRouterFiles
              /\ emergency' = o.emergency
              /\ clock' = t3
              /\ last' = [op |-> "created", name |-> pending[i].name,
                          sid |-> pending[i].sid, result |-> result,
                          escrow |-> pending[i].escrow, before |-> emergency,
                          resp |-> o.resp]
  /\ pending' = Without(pending, i)
  /\ finalized' = IF pending[i].sid \in DOMAIN finalized
                  THEN [finalized EXCEPT ![pending[i].sid].result =
                          IF "id" \in DOMAIN result THEN "ok" ELSE "failed"]
                  ELSE finalized
  /\ UNCHANGED <<env, sessions, issued, timers, consumed, broadcasts>>

\* POST /prepare-account arrives: parse, then await isAccountAvailable.
PrepareAccountStart(token, limited, body) ==
  /\ last = Idle
  /\ Middleware(token, limited) = Null
  /\ IF IsMalformed(body)
     THEN /\ last' = [op |-> "prepare", token |-> token, body |-> body,
                      resp |-> ValidationFailed]
          /\ UNCHANGED pending
     ELSE /\ Len(pending) < MaxPending
          /\ pending' = Append(pending, [route |-> "prepare", await |-> "available",
                                         body |-> body])
          /\ last' = [op |-> "prepare", token |-> token, body |-> body, resp |-> Null]
  /\ UNCHANGED <<env, clock, sessions, issued, timers, consumed, broadcasts, finalized, emergency>>

\* `session-${session.sessionId}`, the transaction id Prepare files its bundle
\* under.
SessionTx(sid) == <<"session", sid>>

\* POST /prepare-account from the generation of the keys to the response.
PrepareAccountPrepared(S, T, E, sid, body, available, master, now, t1, t2, t3, fault) ==
  LET g == generateAccountKeys(body.new_account_name, Omitted, master)
      c == createAccountSession(S, T, sid, body.new_account_name, g.pubkeys,
                                body.creator_account, now)
      e == storeEmergencyKeys(E, body.new_account_name, SessionTx(c.ret.sessionId),
                              g.keys, g.pubkeys, t1, t2, t3, fault)
  IN [sessions |-> c.sessions, timers |-> c.timers, emergency |-> e.emergency,
      created |-> TRUE, threw |-> e.threw,
      resp |-> [status |-> 200, success |-> TRUE, keys |-> g.keys, pubkeys |-> g.pubkeys,
                session_id |-> c.ret.sessionId,
                expires_at |-> toISOString(c.ret.expiresAt)]]

PrepareAccountRouteUnchecked(S, T, E, sid, body, available, master, now, t1, t2, t3, fault) ==
  PrepareAccountPrepared(S, T, E, sid, body, available, master, now, t1, t2, t3, fault)

\* POST /prepare-account after await isAccountAvailable.
PrepareAccountRoute(S, T, E, sid, body, available, master, now, t1, t2, t3, fault) ==
  IF ~available
  THEN [sessions |-> S, timers |-> T, emergency |-> E, created |-> FALSE, threw |-> FALSE,
        resp |-> NameTaken]
  ELSE PrepareAccountPrepared(S, T, E, sid, body, available, master, now, t1, t2, t3, fault)

\* The lookup of isAccountAvailable settles for a Prepare: keys, session,
\* emergency file, response.  t1, t2 and t3 are the clock readings of storeEmergencyKeys.
PrepareAccountAvailable(i, accounts, master, t1, t2, t3, fault) ==
  /\ last = Idle
  /\ i \in 1..Len(pending)
  /\ pending[i].route = "prepare"
  /\ t1 \in LaterReads(clock) /\ t2 \in LaterReads(t1) /\ t3 \in LaterReads(t2)
  /\ ~isAccountAvailable(accounts) => (t3 = clock /\ fault.kind = "none")
  /\ isAccountAvailable(accounts) => issued < MaxSessions
  /\ pending' = Without(pending, i)
  /\ LET body == pending[i].body
         o == PrepareAccountRoute(sessions, timers, emergency, issued + 1, body,
                                  isAccountAvailable(accounts), master, clock, t1, t2, t3,
                                  fault)
     IN /\ issued' = IF o.created THEN issued + 1 ELSE issued
        /\ sessions' = o.sessions
        /\ timers' = o.timers
        /\ emergency' = o.emergency
        /\ clock' = t3
        /\ last' = [op |-> "prepared", body |-> body, accounts |-> accounts,
                    available |-> isAccountAvailable(accounts),
                    fault |-> fault, threw |-> o.threw, resp |-> o.resp,
                    before |-> emergency,
                    session |-> IF o.created THEN Stored(o.sessions, issued + 1) ELSE Null,
                    same |-> (o.sessions = sessions /\ o.timers = timers
                              /\ o.emergency = emergency /\ ~o.created)]
  /\ UNCHANGED <<env, consumed, broadcasts, finalized>>

Next ==
  \/ \E t \in Instants : Tick(t)
  \/ Return
  \/ \E t \in timers : TimerFire(t)
  \/ \E b \in PrepareBodies : PrepareAccountStart(Supplied(SIGNER_TOKEN), FALSE, b)
  \/ \E i \in 1..MaxPending, a \in GetAccounts, f \in Faults, m \in Masters,
       t1 \in LaterReads(clock) :
        \E t2 \in LaterReads(t1) : \E t3 \in LaterReads(t2) :
          PrepareAccountAvailable(i, a, m, t1, t2, t3, f)
  \/ \E b \in CreateBodies, now2 \in LaterReads(clock) :
        \E now3 \in LaterReads(now2) :
          CreateClaimedAccountStart(Supplied(SIGNER_TOKEN), FALSE, b, now2, now3)
  \/ \E i \in 1..MaxPending, a \in GetAccounts : CreateClaimedAccountAvailable(i, a)
  \/ \E i \in 1..MaxPending, r \in {Confirmed} \cup UpstreamErrors : CreateClaimedAccountDone(i, r)

Spec == Init /\ [][Next]_vars

(***************************************************************************)
(* RouterSpec: every route of the accounts router, under every NODE_ENV,   *)
(* for requests with and without the signer token, in direct and in        *)
(* session mode.  The runs follow the service from its start to the        *)
(* millisecond after a reservation has expired: the removal timers, due a  *)
(* minute later, run in Spec and in StoreSpec.                             *)
(***************************************************************************)
\* POST /claim-account arrives: the claim is broadcast.
ClaimAccountStart(token, limited) ==
  /\ last = Idle
  /\ Middleware(token, limited) = Null
  /\ Len(pending) < MaxPending
  /\ pending' = Append(pending, [route |-> "claim", await |-> "claim", op |-> claimAccount])
  /\ last' = [op |-> "claim", token |-> token, sent |-> claimAccount, resp |-> Null]
  /\ UNCHANGED <<env, clock, sessions, issued, timers, consumed, broadcasts, finalized,
                 emergency>>

\* The broadcast of a claim resolves or rejects.
ClaimAccountDone(i, result) ==
  /\ last = Idle
  /\ i \in 1..Len(pending)
  /\ pending[i].route = "claim"
  /\ pending' = Without(pending, i)
  /\ last' = [op |-> "claimed", result |-> result,
              resp |-> IF "id" \in DOMAIN result THEN Claimed(result.id)
                       ELSE ClaimError(result)]
  /\ UNCHANGED <<env, clock, sessions, issued, timers, consumed, broadcasts, finalized,
                 emergency>>

SessionStats(token, limited, now2, now3) ==
  /\ last = Idle
  /\ Middleware(token, limited) = Null
  /\ now2 \in LaterReads(clock)
  /\ now3 \in LaterReads(now2)
  /\ InProduction(env) => now3 = clock
  /\ LET o == SessionStatsRoute(env, sessions, clock, now2, now3)
     IN /\ sessions' = o.sessions
        /\ last' = [op |-> "stats", route |-> "session-stats", token |-> token, before |-> sessions, resp |-> o.resp]
  /\ clock' = now3
  /\ UNCHANGED <<env, issued, timers, pending, consumed, broadcasts, finalized, emergency>>

\* A production deployment answers before it reads the directory or the
\* clock.
EmergencyList(token, limited, order, reads) ==
  /\ last = Idle
  /\ Middleware(token, limited) = Null
  /\ order \in Readdir(emergency)
  /\ IF InProduction(env) THEN reads = [i \in 1..Len(order) |-> clock]
      ELSE ListReads(emergency, order, clock, reads)
  /\ last' = [op |-> "list", route |-> "emergency-recovery/list", token |-> token,
              order |-> order, reads |-> reads,
              resp |-> EmergencyListRoute(env, emergency, order, reads)]
  /\ clock' = LastRead(clock, reads)
  /\ UNCHANGED <<env, sessions, issued, timers, pending, consumed, broadcasts,
                 finalized, emergency>>

EmergencyRetrieve(token, limited, accountName) ==
  /\ last = Idle
  /\ Middleware(token, limited) = Null
  /\ last' = [op |-> "recover", route |-> "emergency-recovery/:accountName",
              token |-> token, accountName |-> accountName,
              resp |-> EmergencyRetrieveRoute(env, emergency, accountName, clock)]
  /\ UNCHANGED <<env, clock, sessions, issued, timers, pending, consumed, broadcasts,
                 finalized, emergency>>

EmergencyMarkDelivered(token, limited, accountName, transactionId, fault) ==
  /\ last = Idle
  /\ Middleware(token, limited) = Null
  /\ fault.kind # "none" =>
        /\ ~InProduction(env) /\ accountName # "" /\ transactionId # NoBody
        /\ ~NoTransactionId(transactionId)
        /\ MarkWrites(emergency, accountName, transactionId[1])
  /\ LET o == EmergencyMarkDeliveredRoute(env, emergency, accountName, transactionId, fault)
     IN /\ Cardinality(DOMAIN o.emergency) <= MaxRouterFiles
        /\ emergency' = o.emergency
        /\ last' = [op |-> "deliver",
                    route |-> "emergency-recovery/:accountName/mark-delivered",
                    token |-> token, accountName |-> accountName,
                    transactionId |-> transactionId, fault |-> fault,
                    before |-> emergency, resp |-> o.resp]
  /\ UNCHANGED <<env, clock, sessions, issued, timers, pending, consumed, broadcasts,
                 finalized>>

\* The requests the router is exercised with.
Routes ==
  {"claim-account", "prepare-account", "create-claimed-account", "session-stats",
   "emergency-recovery/list", "emergency-recovery/:accountName",
   "emergency-recovery/:accountName/mark-delivered"}
DevelopmentRoutes ==
  {"session-stats", "emergency-recovery/list", "emergency-recovery/:accountName",
   "emergency-recovery/:accountName/mark-delivered"}
RouterName == "skateuser"
RouterCreateBodies ==
  LET direct == CreateBody(Absent, FALSE, RouterName, "P1", "exact")
      session == CreateBody(1, TRUE, RouterName, "P1", "exact")
  IN {direct, WithPrivateKeys(direct, "P1"), session, Malformed}
RouterPrepareBodies ==
  {[new_account_name |-> RouterName, creator_account |-> "skatehive"], Malformed}
RecoveryNames == {RouterName}
\* The bodies of the mark-delivered requests, in a list: their values are of
\* several types.
RecoveryTxIds ==
  <<NoBody, Omitted, Supplied(EmptyString), Supplied(Null), Supplied(0), Supplied(FALSE),
    Supplied(SessionTx(1)), Supplied(Confirmed.id)>>

RouterInit == \E e \in Envs : Started(e)

RouterNext ==
  \/ \E i \in DOMAIN sessions : Tick(sessions[i].expiresAt + 1)
  \/ Return
  \/ \E route \in Routes, token \in Headers, limited \in BOOLEAN :
        Refused(route, token, limited)
  \/ \E token \in Headers, limited \in BOOLEAN :
        Len(pending) < MaxInFlight /\ ClaimAccountStart(token, limited)
  \/ \E i \in 1..MaxPending, r \in {Confirmed} \cup ClaimErrors : ClaimAccountDone(i, r)
  \/ \E token \in Headers, limited \in BOOLEAN, b \in RouterPrepareBodies :
        Len(pending) < MaxInFlight /\ PrepareAccountStart(token, limited, b)
  \/ \E i \in 1..MaxPending, a \in GetAccounts, f \in Faults, m \in Masters,
       t1 \in LaterReads(clock) :
        \E t2 \in LaterReads(t1) : \E t3 \in LaterReads(t2) :
          PrepareAccountAvailable(i, a, m, t1, t2, t3, f)
  \/ \E token \in Headers, limited \in BOOLEAN, b \in RouterCreateBodies,
       now2 \in LaterReads(clock) :
        \E now3 \in LaterReads(now2) :
          Len(pending) < MaxInFlight /\ CreateClaimedAccountStart(token, limited, b, now2, now3)
  \/ \E i \in 1..MaxPending, a \in GetAccounts : CreateClaimedAccountAvailable(i, a)
  \/ \E i \in 1..MaxPending, r \in {Confirmed} \cup UpstreamErrors : CreateClaimedAccountDone(i, r)
  \/ \E token \in Headers, limited \in BOOLEAN, now2 \in LaterReads(clock) :
        \E now3 \in LaterReads(now2) :
          SessionStats(token, limited, now2, now3)
  \/ \E token \in Headers, limited \in BOOLEAN, order \in Readdir(emergency) :
        \E reads \in [1..Len(order) -> Instants \cup {clock}] :
          EmergencyList(token, limited, order, reads)
  \/ \E token \in Headers, limited \in BOOLEAN, n \in RecoveryNames :
        EmergencyRetrieve(token, limited, n)
  \/ \E token \in Headers, limited \in BOOLEAN, n \in RecoveryNames,
          x \in DOMAIN RecoveryTxIds, f \in Faults :
        EmergencyMarkDelivered(token, limited, n, RecoveryTxIds[x], f)

RouterSpec == RouterInit /\ [][RouterNext]_vars

(***************************************************************************)
(* StoreSpec: the session store driven through its exported functions.     *)
(***************************************************************************)
StoreCreate(username, master, creator) ==
  /\ last = Idle
  /\ issued < MaxSessions
  /\ LET c == createAccountSession(sessions, timers, issued + 1, username,
                                   generateAccountKeys(username, Omitted, master).pubkeys,
                                   creator, clock)
     IN /\ sessions' = c.sessions
        /\ timers' = c.timers
        /\ last' = [op |-> "create", sid |-> issued + 1, now |-> clock, session |-> c.ret]
  /\ issued' = issued + 1
  /\ UNCHANGED <<env, clock, pending, consumed, broadcasts, finalized, emergency>>

StoreGet(sid) ==
  /\ last = Idle
  /\ LET g == getAccountSession(sessions, sid, clock)
     IN /\ sessions' = g.sessions
        /\ last' = [op |-> "get", sid |-> sid, now |-> clock,
                    session |-> Stored(sessions, sid), found |-> g.ret,
                    others |-> Deleted(g.sessions, sid) = Deleted(sessions, sid)]
  /\ UNCHANGED <<env, clock, issued, timers, pending, consumed, broadcasts, finalized, emergency>>

StoreConsume(sid) ==
  /\ last = Idle
  /\ LET m == markSessionAsUsed(sessions, timers, sid, clock)
     IN /\ sessions' = m.sessions
        /\ timers' = m.timers
        /\ consumed' = IF m.ret THEN Bump(consumed, sid) ELSE consumed
        /\ last' = [op |-> "consume", sid |-> sid, now |-> clock,
                    session |-> Stored(sessions, sid), ret |-> m.ret,
                    same |-> (m.sessions = sessions /\ m.timers = timers)]
  /\ UNCHANGED <<env, clock, issued, pending, broadcasts, finalized, emergency>>

StoreMatches(sid, keys) ==
  /\ last = Idle
  /\ LET v == validateSessionKeys(sessions, sid, keys, clock)
     IN /\ sessions' = v.sessions
        /\ last' = [op |-> "matches", sid |-> sid, keys |-> keys, now |-> clock,
                    session |-> Stored(sessions, sid), ret |-> v.ret]
  /\ UNCHANGED <<env, clock, issued, timers, pending, consumed, broadcasts, finalized, emergency>>

StoreStats ==
  /\ last = Idle
  /\ last' = [op |-> "stats", now |-> clock, stats |-> getSessionStats(sessions, clock)]
  /\ UNCHANGED <<env, clock, sessions, issued, timers, pending, consumed, broadcasts, finalized,
                 emergency>>

StoreCleanup ==
  /\ last = Idle
  /\ LET c == cleanupExpiredSessions(sessions, clock)
     IN /\ sessions' = c.sessions
        /\ last' = [op |-> "cleanup", now |-> clock, removed |-> c.ret]
  /\ UNCHANGED <<env, clock, issued, timers, pending, consumed, broadcasts, finalized, emergency>>

StoreNext ==
  \/ \E t \in Instants : Tick(t)
  \/ \E t \in timers, k \in 1..MaxTimerLate : TickPast(t, k)
  \/ Return
  \/ \E t \in timers : TimerFire(t)
  \/ \E n \in Names, m \in Masters, c \in Creators : StoreCreate(n, m, c)
  \/ \E sid \in AnyIds : StoreGet(sid)
  \/ \E sid \in AnyIds : StoreConsume(sid)
  \/ \E sid \in AnyIds, k \in KeyInputs : StoreMatches(sid, k)
  \/ StoreStats
  \/ StoreCleanup

StoreSpec == Init /\ [][StoreNext]_vars

\* The session store under the scheduling of the event loop: time passes,
\* a stretch that has started returns, and a callback whose timer is due is
\* run once the loop is free.
StoreLiveSpec ==
  /\ Init
  /\ [][StoreNext]_vars
  /\ WF_vars(Return)
  /\ SF_vars(\E t \in Instants : Tick(t))
  /\ SF_vars(\E t \in timers : TimerFire(t))

(***************************************************************************)
(* KeySpec: lib/key-generation driven through its exported functions.      *)
(***************************************************************************)
Tampered(pubkeys, t) == [r \in Roles |-> IF r = t THEN ForeignKey(r) ELSE pubkeys[r]]

\* generateAccountKeys is called twice with the same arguments; r1 and r2 are
\* what the random source yields during the first and the second call.
KeyGenerate(username, masterPassword, r1, r2) ==
  /\ last = Idle
  /\ r1 # r2
  /\ last' = [op |-> "generate", username |-> username, masterPassword |-> masterPassword,
              first |-> generateAccountKeys(username, masterPassword, r1),
              second |-> generateAccountKeys(username, masterPassword, r2)]
  /\ UNCHANGED <<env, clock, sessions, issued, timers, pending, consumed, broadcasts, finalized, emergency>>

\* validateMasterPassword is called with the public keys that an earlier
\* generateAccountKeys(owner, seed) returned, as they are or with the key of
\* one role replaced.
KeyValidate(username, masterPassword, owner, seed, t, r1, r2) ==
  /\ last = Idle
  /\ r1 # r2
  /\ LET expected == Tampered(generateAccountKeys(owner, Supplied(seed), r1).pubkeys, t)
     IN last' = [op |-> "validate", username |-> username, masterPassword |-> masterPassword,
                 expected |-> expected,
                 own |-> (owner = username /\ seed = masterPassword /\ t = "none"),
                 rederived |-> generateAccountKeys(username, Supplied(masterPassword), r2).pubkeys,
                 ret |-> validateMasterPassword(username, masterPassword, expected, r2)]
  /\ UNCHANGED <<env, clock, sessions, issued, timers, pending, consumed, broadcasts, finalized, emergency>>

KeyNext ==
  \/ Return
  \/ \E n \in KeyNames, a \in SeedArgs, r1, r2 \in FreshSeeds : KeyGenerate(n, a, r1, r2)
  \/ \E n, o \in KeyNames, m, s \in SeedValues, t \in Tampers, r1, r2 \in FreshSeeds :
        KeyValidate(n, m, o, s, t, r1, r2)

KeySpec == Init /\ [][KeyNext]_vars

(***************************************************************************)
(* CacheSpec: the emergency directory driven through the functions of      *)
(* lib/emergency-storage.  The clock advances by milliseconds, also        *)
(* between the clock readings of one call.                                 *)
(***************************************************************************)
CacheTxIds == {SessionTx(1), SessionTx(2)}

CacheTick ==
  /\ last = Idle
  /\ clock < MaxClock
  /\ clock' = clock + 1
  /\ UNCHANGED <<env, sessions, issued, timers, pending, last, consumed, broadcasts, finalized, emergency>>

CacheStore(accountName, transactionId, master, t2, t3, fault) ==
  /\ last = Idle
  /\ Cardinality(DOMAIN emergency) < MaxFiles
  /\ clock <= t2 /\ t2 <= t3 /\ t3 <= clock + MaxSyncDelay /\ t3 <= MaxClock
  /\ LET g == generateAccountKeys(accountName, Omitted, master)
         e == storeEmergencyKeys(emergency, accountName, transactionId, g.keys, g.pubkeys,
                                 clock, t2, t3, fault)
     IN /\ emergency' = e.emergency
        /\ last' = [op |-> "store", accountName |-> accountName,
                    transactionId |-> transactionId, fault |-> fault, threw |-> e.threw,
                    before |-> emergency]
  /\ clock' = t3
  /\ UNCHANGED <<env, sessions, issued, timers, pending, consumed, broadcasts, finalized>>

CacheRetrieve(accountName) ==
  /\ last = Idle
  /\ last' = [op |-> "retrieve", accountName |-> accountName,
              ret |-> retrieveEmergencyKeys(emergency, accountName)]
  /\ UNCHANGED <<env, clock, sessions, issued, timers, pending, consumed, broadcasts, finalized,
                 emergency>>

CacheMark(accountName, transactionId, fault) ==
  /\ last = Idle
  /\ Cardinality(DOMAIN emergency) <= MaxFiles
  /\ fault.kind # "none" => MarkWrites(emergency, accountName, transactionId)
  /\ emergency' = markKeysAsDelivered(emergency, accountName, transactionId, fault)
  /\ last' = [op |-> "mark", accountName |-> accountName, transactionId |-> transactionId,
              fault |-> fault, before |-> emergency]
  /\ UNCHANGED <<env, clock, sessions, issued, timers, pending, consumed, broadcasts, finalized>>

CacheList(order, reads) ==
  /\ last = Idle
  /\ order \in Readdir(emergency)
  /\ ListReads(emergency, order, clock, reads)
  /\ last' = [op |-> "listStoredAccounts", order |-> order, reads |-> reads,
              list |-> listStoredAccounts(emergency, order, reads)]
  /\ clock' = LastRead(clock, reads)
  /\ UNCHANGED <<env, sessions, issued, timers, pending, consumed, broadcasts, finalized,
                 emergency>>

CacheNext ==
  \/ CacheTick
  \/ Return
  \/ \E n \in CacheNames, x \in CacheTxIds, m \in Masters, t2, t3 \in 0..MaxClock, f \in Faults :
        CacheStore(n, x, m, t2, t3, f)
  \/ \E n \in CacheNames : CacheRetrieve(n)
  \/ \E n \in CacheNames, x \in CacheTxIds, f \in Faults : CacheMark(n, x, f)
  \/ \E order \in Readdir(emergency) :
        \E reads \in [1..Len(order) -> 0..MaxClock] : CacheList(order, reads)

CacheSpec == Init /\ [][CacheNext]_vars

(***************************************************************************)
(* RetentionSpec: records are stored, time passes to the neighbourhood of  *)
(* the 72 hours after which the routes call a record expired, and          *)
(* listStoredAccounts and the list and retrieve routes of a development    *)
(* deployment are asked.                                                   *)
(***************************************************************************)
\* The 72 hours of the routes, in ms, and the instants around them and
\* around the next tenth of an hour that Math.round rounds up to.
RETENTION_MS == 72 * 60 * 60 * 1000
RetentionInstants ==
  {RETENTION_MS + d : d \in 0..(MaxClock + 1)}
    \cup {RETENTION_MS + 180000 + d : d \in (0 - 1)..(MaxClock + 1)}

RetentionTick(t) ==
  /\ last = Idle
  /\ t \in RetentionInstants
  /\ t > clock
  /\ clock' = t
  /\ UNCHANGED <<env, sessions, issued, timers, pending, last, consumed, broadcasts, finalized,
                 emergency>>

RetentionNext ==
  \/ CacheTick
  \/ Return
  \/ \E t \in RetentionInstants : RetentionTick(t)
  \/ \E x \in CacheTxIds, t2, t3 \in 0..MaxClock, f \in Faults :
        CacheStore(RouterName, x, "P1", t2, t3, f)
  \/ \E order \in Readdir(emergency) :
        \E reads \in [1..Len(order) -> (0..MaxClock) \cup RetentionInstants] :
          CacheList(order, reads)
  \/ \E order \in Readdir(emergency) :
        \E reads \in [1..Len(order) -> (0..MaxClock) \cup RetentionInstants] :
          EmergencyList(Supplied(SIGNER_TOKEN), FALSE, order, reads)
  \/ \E n \in RecoveryNames : EmergencyRetrieve(Supplied(SIGNER_TOKEN), FALSE, n)

RetentionSpec == Init /\ [][RetentionNext]_vars

(***************************************************************************)
(* ModeSpec: the two-step flow for one name, with create requests that     *)
(* carry a session_id and a confirmed field of either value (an absent     *)
(* confirmed is as falsy as false in the route's mode test).               *)
(***************************************************************************)
ModeBodies ==
  { CreateBody(sid, c, RouterName, "P1", "exact") : sid \in AnyIds, c \in BOOLEAN }

ModeNext ==
  \/ \E t \in Instants : Tick(t)
  \/ Return
  \/ \E t \in timers : TimerFire(t)
  \/ \E b \in RouterPrepareBodies : PrepareAccountStart(Supplied(SIGNER_TOKEN), FALSE, b)
  \/ \E i \in 1..MaxPending, a \in GetAccounts, f \in Faults, m \in Masters,
       t1 \in LaterReads(clock) :
        \E t2 \in LaterReads(t1) : \E t3 \in LaterReads(t2) :
          PrepareAccountAvailable(i, a, m, t1, t2, t3, f)
  \/ \E b \in ModeBodies, now2 \in LaterReads(clock) :
        \E now3 \in LaterReads(now2) :
          CreateClaimedAccountStart(Supplied(SIGNER_TOKEN), FALSE, b, now2, now3)
  \/ \E i \in 1..MaxPending, a \in GetAccounts : CreateClaimedAccountAvailable(i, a)
  \/ \E i \in 1..MaxPending, r \in {Confirmed} \cup UpstreamErrors : CreateClaimedAccountDone(i, r)

ModeSpec == Init /\ [][ModeNext]_vars

(***************************************************************************)
(* Properties.                                                             *)
(***************************************************************************)
Count(f, sid) == IF sid \in DOMAIN f THEN f[sid] ELSE 0
Live(session, now) == session # Null /\ now <= session.expiresAt
KeysEqual(a, b) == \A r \in Roles : a[r] = b[r]

\* The stretch that has just run is the first one of a session-mode
\* POST /create-claimed-account.
SessionRequest ==
  /\ last.op = "create"
  /\ ~IsMalformed(last.body)
  /\ IsSessionMode(last.body)

\* ... and its request names the session's account and carries its four keys.
MatchingRequest ==
  /\ SessionRequest
  /\ last.stored # Null
  /\ last.body.new_account_name = last.stored.username
  /\ KeysEqual(providedPubkeys(last.body), last.stored.pubkeys)

Rejected(error) ==
  /\ last.next = "done"
  /\ last.sent = Null
  /\ last.resp.status = 400
  /\ last.resp.error = error

InvalidSession ==
  [status |-> 400, error |-> "Invalid Session",
   message |-> "Session not found or expired. Please generate keys again."]

\* C1: of the session-mode requests that name the account of a reservation,
\* carry its stored keys and are handled while it is unexpired, the first one
\* reaches the broadcast and every other one is answered Session Already
\* Used; at most one broadcast is ever issued for a session id.
C1_OneBroadcastPerSession ==
  /\ \A sid \in SessionIds : broadcasts[sid] <= 1 /\ broadcasts[sid] = consumed[sid]
  /\ (MatchingRequest /\ last.until <= last.stored.expiresAt) =>
        IF Count(broadcasts, last.body.session_id) = 1 /\ last.next # "broadcast"
        THEN Rejected("Session Already Used")
        ELSE /\ last.next = "broadcast"
             /\ ~last.stored.used
             /\ broadcasts[last.body.session_id] = 1

\* A request is answered Session Already Used while the broadcast of an
\* earlier request for the same session is still in flight.
C1_Witness ==
  /\ MatchingRequest
  /\ Rejected("Session Already Used")
  /\ \E i \in 1..Len(pending) :
        pending[i].await = "broadcast" /\ pending[i].sid = last.body.session_id

\* C2: markSessionAsUsed returns true exactly on the first call made for an
\* id whose reservation is stored and unexpired, false on every other call,
\* and a call that returns false leaves the map and the timers as they were.
C2_ConsumeOnce ==
  /\ \A sid \in SessionIds : consumed[sid] <= 1
  /\ last.op = "consume" =>
        LET before == Count(consumed, last.sid) - (IF last.ret THEN 1 ELSE 0)
        IN /\ last.ret = (Live(last.session, last.now) /\ before = 0)
           /\ ~last.ret => last.same

\* A second call on a stored, unexpired reservation returns false.
C2_Witness ==
  /\ last.op = "consume"
  /\ Live(last.session, last.now)
  /\ consumed[last.sid] = 1
  /\ ~last.ret

\* C3 as stated: once a session-mode creation through a session has
\* succeeded, every later request with that session id, the same name and
\* the same keys is answered Session Already Used.
C3_LaterAlwaysAlreadyUsed ==
  (/\ SessionRequest
   /\ last.body.session_id \in SessionIds
   /\ finalized[last.body.session_id].result = "ok"
   /\ last.body.new_account_name = finalized[last.body.session_id].name
   /\ KeysEqual(providedPubkeys(last.body), finalized[last.body.session_id].pubkeys))
  => Rejected("Session Already Used")

\* C3 as amended: such a request issues no broadcast; it is answered Session
\* Already Used when handled no later than the reservation's expiresAt, and
\* Invalid Session when handled after it.
C3_LaterRejected ==
  (/\ SessionRequest
   /\ last.body.session_id \in SessionIds
   /\ finalized[last.body.session_id].result = "ok"
   /\ last.body.new_account_name = finalized[last.body.session_id].name
   /\ KeysEqual(providedPubkeys(last.body), finalized[last.body.session_id].pubkeys))
  => /\ broadcasts[last.body.session_id] = 1
     /\ IF last.now <= finalized[last.body.session_id].expiresAt
        THEN Rejected("Session Already Used")
        ELSE Rejected("Invalid Session")

\* A repeated request after a successful creation, before the expiry.
C3_Witness ==
  /\ SessionRequest
  /\ last.body.session_id \in SessionIds
  /\ finalized[last.body.session_id].result = "ok"
  /\ last.body.new_account_name = finalized[last.body.session_id].name
  /\ KeysEqual(providedPubkeys(last.body), finalized[last.body.session_id].pubkeys)
  /\ last.now <= finalized[last.body.session_id].expiresAt
  /\ Rejected("Session Already Used")

\* C4: when the broadcast of a session-mode creation fails, the response
\* carries the upstream message, the reservation (while stored) stays used,
\* and every further request on that session id is rejected with no
\* broadcast.
C4_FailureKeepsSessionConsumed ==
  /\ (last.op = "created" /\ "message" \in DOMAIN last.result) =>
        /\ last.resp.status \in {400, 502}
        /\ \/ "hive_error" \in DOMAIN last.resp /\ last.resp.hive_error = last.result.message
           \/ "details" \in DOMAIN last.resp /\ last.resp.details = last.result.message
  /\ \A sid \in SessionIds :
        finalized[sid].result = "failed" =>
          /\ broadcasts[sid] = 1
          /\ sid \in DOMAIN sessions => sessions[sid].used
          /\ (SessionRequest /\ last.body.session_id = sid) =>
                /\ last.next = "done" /\ last.sent = Null
                /\ last.resp.status = 400
                /\ last.same \/ sid \notin DOMAIN sessions

\* A request with the right name and keys is rejected after a failed
\* broadcast through the same session.
C4_Witness ==
  /\ MatchingRequest
  /\ finalized[last.body.session_id].result = "failed"
  /\ Rejected("Session Already Used")

AuthorityKeys(authority) == {authority.key_auths[i][1] : i \in 1..Len(authority.key_auths)}

\* C5 as stated: a session-mode request reaches the broadcast only when the
\* authorities sent carry the reservation's keys and nothing else.
C5_BroadcastCarriesExactBundle ==
  (SessionRequest /\ last.next = "broadcast") =>
     /\ AuthorityKeys(last.sent.owner) = {last.session.pubkeys.owner}
     /\ AuthorityKeys(last.sent.active) = {last.session.pubkeys.active}
     /\ AuthorityKeys(last.sent.posting) = {last.session.pubkeys.posting}
     /\ last.sent.memo_key = last.session.pubkeys.memo
     /\ last.sent.owner.account_auths = << >>

\* C6 as stated: a request that names a stored, unexpired session and another
\* account than the session's is answered Session Mismatch.
C6_MismatchOnLiveSession ==
  (/\ SessionRequest
   /\ Live(last.stored, last.now)
   /\ last.body.new_account_name # last.stored.username)
  => Rejected("Session Mismatch")

\* C6 as amended: it is answered Session Mismatch when the session is not yet
\* used and Session Already Used when it is; neither issues a broadcast nor
\* changes the store.
C6_MismatchOnUnusedSession ==
  (/\ SessionRequest
   /\ Live(last.stored, last.now)
   /\ last.body.new_account_name # last.stored.username)
  => /\ last.same
     /\ IF last.stored.used THEN Rejected("Session Already Used")
        ELSE Rejected("Session Mismatch")

C6_Witness ==
  /\ SessionRequest
  /\ Live(last.stored, last.now)
  /\ ~last.stored.used
  /\ last.body.new_account_name # last.stored.username
  /\ Rejected("Session Mismatch")

\* C7: a session-mode request whose id was never returned by Prepare gets
\* the Invalid Session response, the very response given for an id whose
\* reservation has expired (still stored or already removed); neither
\* reaches the broadcast.
C7_UnknownLikeExpired ==
  (/\ SessionRequest
   /\ \/ last.body.session_id \notin 1..issued
      \/ last.stored = Null
      \/ last.now > last.stored.expiresAt)
  => /\ last.resp = InvalidSession
     /\ last.next = "done"
     /\ last.sent = Null

\* An id no Prepare has returned is presented while an expired reservation
\* is still stored.
C7_Witness ==
  /\ SessionRequest
  /\ last.body.session_id \notin 1..issued
  /\ last.resp = InvalidSession
  /\ \E sid \in DOMAIN sessions : clock > sessions[sid].expiresAt

\* C8: getAccountSession returns null for a stored reservation read after
\* its expiresAt, used or not, and removes it; read at or before expiresAt
\* it returns the stored reservation and keeps it.
C8_LazyExpiry ==
  (last.op = "get" /\ last.session # Null) =>
     IF last.now > last.session.expiresAt
     THEN last.found = Null /\ last.sid \notin DOMAIN sessions
     ELSE last.found = last.session /\ Stored(sessions, last.sid) = last.session

\* A used reservation that no timer has removed is read after its expiry.
C8_Witness ==
  /\ last.op = "get"
  /\ last.session # Null
  /\ last.session.used
  /\ last.now > last.session.expiresAt
  /\ last.found = Null

\* C9: validateSessionKeys returns false when the supplied keys differ from
\* the stored ones in at least one role.
C9_AnyRoleDiffers ==
  (/\ last.op = "matches"
   /\ last.session # Null
   /\ \E r \in Roles : last.keys[r] # last.session.pubkeys[r])
  => ~last.ret

\* The supplied keys differ from an unexpired reservation's in the memo key
\* alone.
C9_Witness ==
  /\ last.op = "matches"
  /\ Live(last.session, last.now)
  /\ last.keys.memo # last.session.pubkeys.memo
  /\ \A r \in Roles \ {"memo"} : last.keys[r] = last.session.pubkeys[r]
  /\ ~last.ret

\* C10 as stated: validateSessionKeys returns true exactly when the
\* reservation is stored, unexpired, not used, and its keys are the supplied
\* ones.
C10_MatchesOnlyUnused ==
  last.op = "matches" =>
     last.ret = (/\ Live(last.session, last.now)
                 /\ ~last.session.used
                 /\ KeysEqual(last.keys, last.session.pubkeys))

\* C11 as stated: a session-mode request on a missing, an expired or a used
\* reservation gets one and the same negative result: the lookup gives the
\* handler nothing and the response is the Invalid Session one.
C11_UniformNegative ==
  (/\ SessionRequest
   /\ \/ last.stored = Null
      \/ last.now > last.stored.expiresAt
      \/ last.stored.used)
  => /\ last.session = Null
     /\ last.resp = InvalidSession

\* C12: when storeEmergencyKeys hits an I/O fault during Prepare it does not
\* throw, whether or not the file was opened, and Prepare still creates the
\* reservation and answers 200 with the private keys, the public keys, the
\* session id and the expiry of that reservation.
C12_EscrowFaultNotFatal ==
  (last.op = "prepared" /\ last.available /\ last.fault.kind # "none") =>
     /\ ~last.threw
     /\ last.resp.status = 200 /\ last.resp.success
     /\ last.session # Null
     /\ Stored(sessions, last.resp.session_id) = last.session
     /\ last.session.username = last.body.new_account_name
     /\ last.resp.pubkeys = last.session.pubkeys
     /\ last.resp.expires_at = toISOString(last.session.expiresAt)
     /\ \A r \in Roles : createPublic(last.resp.keys[r]) = last.resp.pubkeys[r]

\* A Prepare whose emergency file was written part-way, and holds no record,
\* has answered 200.
C12_Witness ==
  /\ last.op = "prepared"
  /\ last.fault.kind = "write"
  /\ last.fault.bytes > 0
  /\ last.resp.status = 200
  /\ \E f \in DOMAIN emergency : ~Parseable(emergency[f])
  /\ last.resp.session_id \in DOMAIN sessions

\* C13: when isAccountAvailable reports the name as taken, Prepare answers
\* 400 Validation Error "Account name is already taken", without keys, and
\* leaves the session store, its timers and the emergency directory as they
\* were.
C13_NameTakenNoEffect ==
  (last.op = "prepared" /\ ~last.available) =>
     /\ last.resp = NameTaken
     /\ "keys" \notin DOMAIN last.resp
     /\ last.session = Null
     /\ last.same

\* A Prepare has been refused for a taken name.
C13_Witness ==
  /\ last.op = "prepared"
  /\ ~last.available
  /\ last.resp.status = 400
  /\ last.same

\* C14 as stated: two calls of generateAccountKeys with the same account name
\* and the same optional master password return the same bundle.
C14_SameInputsSameBundle ==
  last.op = "generate" => last.first = last.second

\* C14: two calls with the same account name and the same supplied,
\* non-empty master password return the same bundle, whose master password
\* is the supplied one; with the master password omitted or empty each call
\* draws its own random one and the two bundles differ.
C14_SuppliedSeedSameBundle ==
  last.op = "generate" =>
     IF last.masterPassword # Omitted /\ last.masterPassword[1] # ""
     THEN /\ last.first = last.second
          /\ last.first.keys.master_password = last.masterPassword[1]
     ELSE last.first # last.second

\* The same non-empty master password is supplied twice while the random
\* source would have yielded two different ones.
C14_Witness ==
  /\ last.op = "generate"
  /\ last.masterPassword = Supplied("P1")
  /\ last.first = last.second
  /\ last.first.pubkeys.owner = createPublic(derivePrivateKey("P1", last.username, "owner"))

\* C15 as stated: whenever a master password is supplied, the four keys are
\* derived from exactly it and it is returned as the bundle's master
\* password.
C15_SuppliedSeedIsUsed ==
  (last.op = "generate" /\ last.masterPassword # Omitted) =>
     /\ last.first.keys.master_password = last.masterPassword[1]
     /\ \A r \in Roles :
          last.first.keys[r] = derivePrivateKey(last.masterPassword[1], last.username, r)

\* C16 as stated: validateMasterPassword accepts, for every account name and
\* master password, the public keys generateAccountKeys returned for them,
\* and rejects an expected mapping that differs from the re-derived keys.
C16_ValidateRoundTripAnySeed ==
  last.op = "validate" =>
     /\ last.own => last.ret
     /\ (\E r \in Roles : last.expected[r] # last.rederived[r]) => ~last.ret

\* The files of a directory that hold a record of the account name.
RecordsOf(E, accountName) ==
  {f \in DOMAIN E : Parseable(E[f]) /\ E[f].accountName = accountName}

\* C17 as stated: retrieveEmergencyKeys returns null when no record of
\* exactly the requested account name is stored, and otherwise the most
\* recently stored record of that name, never one of another name.
C17_RetrieveOwnLatest ==
  last.op = "retrieve" =>
     LET own == RecordsOf(emergency, last.accountName)
     IN IF own = {} THEN last.ret = Null
        ELSE /\ last.ret # Null
             /\ last.ret.accountName = last.accountName
             /\ \A f \in own : emergency[f].createdAt <= last.ret.createdAt

\* C18 as stated: a store that does not fault adds one file and leaves every
\* earlier file as it was, and no call removes a file or changes the keys
\* in it.
C18_AppendOnly ==
  /\ (last.op = "store" /\ last.fault.kind = "none") =>
        /\ Cardinality(DOMAIN emergency) = Cardinality(DOMAIN last.before) + 1
        /\ \A f \in DOMAIN last.before : f \in DOMAIN emergency /\ emergency[f] = last.before[f]
  /\ last.op \in {"store", "mark"} =>
        \A f \in DOMAIN last.before :
           /\ f \in DOMAIN emergency
           /\ Parseable(last.before[f]) =>
                /\ Parseable(emergency[f])
                /\ emergency[f].keys = last.before[f].keys
                /\ emergency[f].publicKeys = last.before[f].publicKeys

\* C19 as stated: after markKeysAsDelivered(accountName, transactionId) every
\* record of that account name with that transaction id has the status
\* delivered, and so has what retrieveEmergencyKeys(accountName) returns when
\* it is such a record.
C19_MarkedIsDelivered ==
  (last.op = "mark" /\ last.fault.kind = "none") =>
     /\ \A f \in RecordsOf(last.before, last.accountName) :
           last.before[f].transactionId = last.transactionId
             => f \in DOMAIN emergency /\ emergency[f].status = "delivered"
     /\ LET r == retrieveEmergencyKeys(emergency, last.accountName)
        IN (/\ r # Null
            /\ r.accountName = last.accountName
            /\ r.transactionId = last.transactionId) => r.status = "delivered"

\* C20 as stated: markKeysAsDelivered leaves the set of files as it was and
\* changes nothing but the status in them.
C20_MarkChangesStatusOnly ==
  (last.op = "mark" /\ last.fault.kind = "none") =>
     /\ DOMAIN emergency = DOMAIN last.before
     /\ \A f \in DOMAIN last.before :
           IF Parseable(last.before[f]) /\ Parseable(emergency[f])
           THEN [emergency[f] EXCEPT !.status = "created"]
                  = [last.before[f] EXCEPT !.status = "created"]
           ELSE emergency[f] = last.before[f]

\* C21 as stated: a second markKeysAsDelivered with the same arguments
\* leaves the directory as the first one left it, and a call whose
\* transaction id is carried by no record of that account name leaves the
\* directory as it was.
C21_MarkIdempotentNoMatchNoChange ==
  (last.op = "mark" /\ last.fault.kind = "none") =>
     /\ markKeysAsDelivered(emergency, last.accountName, last.transactionId, last.fault)
          = emergency
     /\ (\A f \in RecordsOf(last.before, last.accountName) :
            last.before[f].transactionId # last.transactionId)
          => emergency = last.before

\* C22 as stated: when the broadcast of a session-mode request succeeds, the
\* emergency record that Prepare filed for that session has the status
\* delivered, if Prepare could write one, and the response carries the
\* transaction id.
C22_DeliveredAfterBroadcast ==
  (last.op = "created" /\ "id" \in DOMAIN last.result /\ last.sid # Absent) =>
     /\ last.resp.status = 201
     /\ last.resp.transaction_id = last.result.id
     /\ \A f \in DOMAIN emergency :
           (Parseable(emergency[f]) /\ emergency[f].transactionId = SessionTx(last.sid))
             => emergency[f].status = "delivered"

\* C27: a session kept by a step of the store keeps its id, account name,
\* public keys, createdAt, expiresAt and creator, and keeps used once it is
\* set; a session added by a step starts with used false; no session is
\* consumed more than once.
C27_ImmutableExceptUsed ==
  [][ /\ \A sid \in DOMAIN sessions \cap DOMAIN sessions' :
          /\ [sessions'[sid] EXCEPT !.used = FALSE] = [sessions[sid] EXCEPT !.used = FALSE]
          /\ sessions[sid].used => sessions'[sid].used
      /\ \A sid \in DOMAIN sessions' \ DOMAIN sessions :
          /\ ~sessions'[sid].used
          /\ sessions'[sid].sessionId = sid
      /\ \A sid \in SessionIds : consumed'[sid] <= 1]_vars

C27_Witness ==
  /\ last.op = "consume"
  /\ last.ret
  /\ last.session # Null
  /\ ~last.session.used
  /\ sessions[last.sid] = [last.session EXCEPT !.used = TRUE]

\* C28: every stored reservation expires 900000 ms after its creation, the
\* expires_at of a Prepare response is the expiresAt of the reservation it
\* stored, and a session-mode request that arrives after the expiresAt of
\* its reservation issues no broadcast.
C28_FixedLifetime ==
  /\ \A sid \in DOMAIN sessions :
        sessions[sid].expiresAt = sessions[sid].createdAt + 900000
  /\ (last.op = "prepared" /\ last.session # Null) =>
        /\ last.resp.status = 200
        /\ last.resp.expires_at = toISOString(last.session.expiresAt)
        /\ last.session.expiresAt = last.session.createdAt + 900000
  /\ (SessionRequest /\ last.stored # Null /\ last.now > last.stored.expiresAt) =>
        /\ last.next = "done"
        /\ last.sent = Null
        /\ last.resp.status = 400
        /\ broadcasts[last.body.session_id] = consumed[last.body.session_id]

\* A request that matches an unused reservation arrives the millisecond
\* after its expiresAt, before the removal timer has run.
C28_Witness ==
  /\ MatchingRequest
  /\ ~last.stored.used
  /\ last.now = last.stored.createdAt + 900000 + 1
  /\ Rejected("Invalid Session")
  /\ \E t \in timers : t.kind = "expiry" /\ t.sid = last.body.session_id

\* C29 as stated: no reservation is in the store later than its expiresAt
\* plus the cleanup buffer.
C29_RemovedByBuffer ==
  \A sid \in DOMAIN sessions : clock <= sessions[sid].expiresAt + CLEANUP_BUFFER_MS

\* C29: every stored reservation, read again or not, finalized or not, has
\* the removal scheduled at its creation pending and due at its expiresAt
\* plus the cleanup buffer of 60000 ms, and every stored reservation is
\* eventually out of the store.
C29_EventuallyRemoved ==
  /\ [](\A sid \in DOMAIN sessions :
          \E t \in timers : /\ t.sid = sid
                            /\ t.kind = "expiry"
                            /\ t.due = sessions[sid].expiresAt + 60000)
  /\ \A sid \in SessionIds : (sid \in DOMAIN sessions) ~> (sid \notin DOMAIN sessions)

\* The removal scheduled at creation takes out a reservation that was never
\* consumed, in a callback that starts when Date.now() is past the instant
\* the removal was due.
C29_Witness ==
  /\ last.op = "timer"
  /\ last.kind = "expiry"
  /\ last.session # Null
  /\ ~last.session.used
  /\ last.now > last.session.expiresAt + CLEANUP_BUFFER_MS
  /\ last.sid \notin DOMAIN sessions

\* C30: listStoredAccounts returns one summary for every file of the
\* directory that holds a record (a file a failed write cut short holds
\* none), each with the account name, transaction id, timestamp and status
\* of its record and the age the record has at the clock reading made for
\* its file, no summary later in the list has a later timestamp than one
\* before it, and a summary has these fields and the file name and no
\* other: none for the keys.
C30_ListNewestFirstNoKeys ==
  last.op = "listStoredAccounts" =>
     /\ Len(last.list) = Cardinality({f \in DOMAIN emergency : Parseable(emergency[f])})
     /\ {last.list[i].filename : i \in DOMAIN last.list}
           = {f \in DOMAIN emergency : Parseable(emergency[f])}
     /\ \A i \in DOMAIN last.list :
           LET s == last.list[i]
               rec == emergency[s.filename]
               at == last.reads[CHOOSE p \in DOMAIN last.order : last.order[p] = s.filename]
           IN /\ DOMAIN s = {"accountName", "transactionId", "timestamp", "ageHours",
                             "status", "filename"}
              /\ s.accountName = rec.accountName
              /\ s.transactionId = rec.transactionId
              /\ s.timestamp = rec.timestamp
              /\ s.status = rec.status
              /\ s.ageHours = AgeTenths(rec.createdAt, at)
     /\ \A i, j \in DOMAIN last.list :
           i < j => DateParse(last.list[i].timestamp) >= DateParse(last.list[j].timestamp)

\* Two records with different timestamps are listed from a directory that
\* returns the older one first, the clock moves between the readings made
\* for the two files, and the two summaries carry different ages.
C30_Witness ==
  /\ last.op = "listStoredAccounts"
  /\ Len(last.list) = 2
  /\ DateParse(emergency[last.order[1]].timestamp) < DateParse(emergency[last.order[2]].timestamp)
  /\ last.list[1].filename = last.order[2]
  /\ last.reads[1] < last.reads[2]
  /\ last.list[1].ageHours # last.list[2].ageHours

\* C23 as stated: a create-claimed-account request that is not in session
\* mode leaves the session store and its timers as they were, and the
\* emergency directory is after the request what it was before it.
C23_DirectCreateNoEscrow ==
  /\ (last.op = "create" /\ ~IsMalformed(last.body) /\ ~IsSessionMode(last.body)) =>
        last.same
  /\ (last.op = "created" /\ last.sid = Absent) => emergency = last.before

\* A response holds private keys or the seed.
CarriesKeys(resp) ==
  \/ "keys" \in DOMAIN resp
  \/ "master_password" \in DOMAIN resp
  \/ /\ "accounts" \in DOMAIN resp
     /\ \E i \in DOMAIN resp.accounts : "keys" \in DOMAIN resp.accounts[i]

\* C24 as stated: a response that holds private keys or the seed is the
\* success response of Prepare.
C24_KeysOnlyInPrepare ==
  ("resp" \in DOMAIN last /\ CarriesKeys(last.resp)) =>
     (last.op = "prepared" /\ last.resp.status = 200)

\* C24: a response that holds private keys or the seed is the success
\* response of Prepare, or the 200 response of GET
\* /emergency-recovery/:accountName to a request with the signer token in a
\* deployment that is not a production one; no other response of any route
\* holds them.
C24_KeysOnlyInPrepareOrRecovery ==
  ("resp" \in DOMAIN last /\ CarriesKeys(last.resp)) =>
     \/ last.op = "prepared" /\ last.resp.status = 200
     \/ /\ last.op = "recover"
        /\ last.resp.status = 200
        /\ env # "production"
        /\ last.token = Supplied(SIGNER_TOKEN)

\* The keys Prepare generated for a session leave through the recovery route
\* of a development deployment after the session has been finalized and the
\* ledger has confirmed the creation.
C24_Witness ==
  /\ last.op = "recover"
  /\ env = "development"
  /\ consumed[1] = 1
  /\ finalized[1].result = "ok"
  /\ last.resp.status = 200
  /\ last.resp.transactionId = SessionTx(1)
  /\ last.resp.keys = generateAccountKeys(RouterName, Omitted, "P1").keys

\* C25 as stated: in a production deployment every request to session-stats
\* and to the list, retrieve and mark-delivered routes is answered 404.
C25_ProductionAlways404 ==
  (env = "production" /\ "route" \in DOMAIN last /\ last.route \in DevelopmentRoutes) =>
     last.resp.status = 404

\* C25: in a production deployment a request to session-stats or to the
\* list, retrieve or mark-delivered route is answered 404 with the body
\* {error: Not Found} when it passes the middlewares, 401 when its token is
\* missing or wrong and 429 when it is rate limited; in each case the
\* sessions, the timers, the emergency directory and the suspended requests
\* stay as they were.
C25_ProductionNoDataNoChange ==
  [][ (env = "production" /\ "route" \in DOMAIN last' /\ last'.route \in DevelopmentRoutes) =>
        /\ last'.resp.status \in {401, 404, 429}
        /\ last'.resp.status = 401 <=> last'.token # Supplied(SIGNER_TOKEN)
        /\ last'.resp.status = 404 => (last'.op # "refused" /\ last'.resp = NotFound)
        /\ DOMAIN last'.resp \subseteq {"status", "error", "message"}
        /\ UNCHANGED <<sessions, issued, timers, pending, consumed, broadcasts, finalized,
                       emergency>> ]_vars

\* In production mark-delivered is asked, with the signer token, to mark a
\* record that is stored with that transaction id and is not yet delivered.
C25_Witness ==
  /\ env = "production"
  /\ last.op = "deliver"
  /\ last.resp = NotFound
  /\ last.transactionId # Omitted
  /\ \E f \in DOMAIN emergency :
        /\ Parseable(emergency[f])
        /\ emergency[f].accountName = last.accountName
        /\ StrictEquals(emergency[f].transactionId, last.transactionId[1])
        /\ emergency[f].status = "created"

\* C26: a request whose x-signer-token is missing or is not the configured
\* token is answered 401 by the middleware on every route, and the step that
\* answers it leaves the sessions, the timers, the suspended requests (the
\* calls to the ledger), the consumption and broadcast counts and the
\* emergency directory as they were.
C26_NoTokenNoOperation ==
  [][ ("token" \in DOMAIN last' /\ last'.token # Supplied(SIGNER_TOKEN)) =>
        /\ last'.op = "refused"
        /\ last'.resp.status = 401
        /\ last'.resp.error = "Unauthorized"
        /\ UNCHANGED <<sessions, issued, timers, pending, consumed, broadcasts, finalized,
                       emergency>> ]_vars

\* A create-claimed-account request with a wrong token is refused while a
\* session is stored and the account name is free to prepare.
C26_Witness ==
  /\ last.op = "refused"
  /\ last.route = "create-claimed-account"
  /\ last.token = Supplied("other-token")
  /\ last.resp.status = 401
  /\ DOMAIN sessions # {}

\* C31 as stated: the expired flag of every entry of the list is true exactly
\* when the record is older than 72 hours at the clock reading made for its
\* file, and it is the flag the retrieve route gives at the same time for the
\* record, when that is the record the retrieve route finds for the account.
C31_ExpiredExactly ==
  (last.op = "list" /\ last.resp.status = 200) =>
     LET summaries == listStoredAccounts(emergency, last.order, last.reads)
     IN \A i \in DOMAIN last.resp.accounts :
          LET rec == emergency[summaries[i].filename]
              entry == last.resp.accounts[i]
              at == last.reads[CHOOSE p \in DOMAIN last.order :
                                  last.order[p] = summaries[i].filename]
          IN /\ entry.expired <=> (at - rec.createdAt > 72 * 60 * 60 * 1000)
             /\ retrieveEmergencyKeys(emergency, rec.accountName) = rec =>
                   entry.expired =
                     EmergencyRetrieveRoute(env, emergency, rec.accountName, at).expired

\* C32 as stated: the broadcast of a POST /create-claimed-account whose body
\* carries a session_id is issued only when the reservation of that id is
\* stored, unexpired and unused when the request is handled and has the
\* request's name and keys, whatever the body's confirmed field.
C32_SessionIdGuardsBroadcast ==
  /\ (last.op = "create" /\ last.next = "broadcast" /\ last.body.session_id # Absent) =>
        /\ last.stored # Null
        /\ ~last.stored.used
        /\ last.now <= last.stored.expiresAt
        /\ last.stored.username = last.body.new_account_name
        /\ KeysEqual(providedPubkeys(last.body), last.stored.pubkeys)
  /\ (last.op = "available" /\ last.sent # Null /\ last.session_id # Absent) =>
        LET session == Stored(sessions, last.session_id)
        IN /\ session # Null
           /\ ~session.used
           /\ clock <= session.expiresAt
           /\ session.username = last.name
           /\ KeysEqual(providedPubkeys(last.sent), session.pubkeys)

\* C33: when the handler of a session-mode creation suspends on the broadcast
\* it has just issued, the reservation it read is the one that was stored
\* when the request arrived, unused; it is now stored with used true and
\* nothing else of the store has changed since the request arrived: the read,
\* the checks and the consume are one stretch without an await.
C33_ConsumedBeforeBroadcast ==
  (last.op = "create" /\ last.next = "broadcast") =>
     LET sid == last.body.session_id
     IN /\ SessionRequest
        /\ last.sent = createClaimedAccount(last.body)
        /\ last.session = last.stored
        /\ last.session # Null /\ ~last.session.used
        /\ sid \in DOMAIN sessions
        /\ sessions[sid] = [last.session EXCEPT !.used = TRUE]
        /\ \A other \in DOMAIN sessions \ {sid} : ~sessions[other].used \/ consumed[other] = 1
        /\ consumed[sid] = 1 /\ broadcasts[sid] = 1
        /\ \E i \in 1..Len(pending) :
              /\ pending[i].await = "broadcast" /\ pending[i].sid = sid
              /\ sessions[pending[i].sid].used

\* A session-mode request handled at the last instant of its reservation has
\* just issued its broadcast.
C33_Witness ==
  /\ last.op = "create" /\ last.next = "broadcast"
  /\ SessionRequest
  /\ last.now = last.stored.expiresAt
  /\ sessions[last.body.session_id].used

\* C34: a session-mode request answered Session Mismatch or Key Mismatch
\* consumes nothing: its session is not marked used and no removal of a used
\* session is scheduled for it; the reservation is stored exactly as it was
\* (or, when it passed its expiresAt while the request was handled, has been
\* removed by the lookup), and while it is unexpired a request with its name
\* and its stored keys reaches the broadcast at any instant up to expiresAt.
C34_MismatchDoesNotConsume ==
  (SessionRequest /\ (Rejected("Session Mismatch") \/ Rejected("Key Mismatch"))) =>
     LET sid == last.body.session_id
         before == last.stored
         matching == {b \in SessionBodies :
                        /\ b.session_id = sid
                        /\ b.new_account_name = before.username
                        /\ KeysEqual(providedPubkeys(b), before.pubkeys)}
     IN /\ before # Null /\ ~before.used
        /\ consumed[sid] = 0 /\ broadcasts[sid] = 0
        /\ \A t \in timers : t.sid = sid => t.kind # "used"
        /\ IF last.until <= before.expiresAt
           THEN /\ last.same
                /\ Stored(sessions, sid) = before
                /\ matching # {}
                /\ \A b \in matching, t \in {clock, before.expiresAt} :
                      LET o == CreateClaimedAccountRoute(sessions, timers, b, t, t, t)
                      IN /\ o.next = "broadcast"
                         /\ o.sessions[sid] = [before EXCEPT !.used = TRUE]
           ELSE Stored(sessions, sid) = Null

\* A request with a foreign key in one role is answered Key Mismatch while
\* the reservation is unexpired.
C34_Witness ==
  /\ SessionRequest
  /\ Rejected("Key Mismatch")
  /\ last.until <= last.stored.expiresAt
  /\ last.body.new_account_name = last.stored.username
  /\ ~KeysEqual(providedPubkeys(last.body), last.stored.pubkeys)

\* C35 as stated: a session-mode request is answered Key Mismatch only when
\* one of the four keys it submits differs from the key the reservation
\* stores for that role.
C35_KeyMismatchOnlyOnDifference ==
  (SessionRequest /\ Rejected("Key Mismatch")) =>
     /\ last.stored # Null
     /\ ~KeysEqual(providedPubkeys(last.body), last.stored.pubkeys)

\* C36: when a Prepare has answered 200 and its emergency write did not
\* fault, exactly one file of the emergency directory is new or has new
\* content; its record has status created, the prepared account name, the
\* transaction id session-<id> of the reservation just created, the public
\* keys that reservation stores and the private keys of the response; every
\* other file is as it was.
C36_PrepareLeavesOneRecord ==
  (last.op = "prepared" /\ last.available /\ last.fault.kind = "none") =>
     LET written == {f \in DOMAIN emergency :
                       f \notin DOMAIN last.before \/ emergency[f] # last.before[f]}
     IN /\ last.resp.status = 200
        /\ last.session # Null
        /\ Stored(sessions, last.resp.session_id) = last.session
        /\ Cardinality(written) = 1
        /\ \A f \in DOMAIN last.before : f \in DOMAIN emergency
        /\ \A f \in written :
              /\ f.name = last.body.new_account_name
              /\ emergency[f].status = "created"
              /\ emergency[f].accountName = last.body.new_account_name
              /\ emergency[f].transactionId = SessionTx(last.session.sessionId)
              /\ emergency[f].publicKeys = last.session.pubkeys
              /\ emergency[f].keys = last.resp.keys

\* A Prepare has succeeded and written its record into a directory that
\* already held the record of an earlier creation.
C36_Witness ==
  /\ last.op = "prepared" /\ last.available /\ last.fault.kind = "none"
  /\ last.resp.status = 200
  /\ last.before # << >>
  /\ \E f \in DOMAIN emergency :
        /\ Parseable(emergency[f])
        /\ emergency[f].transactionId = SessionTx(last.resp.session_id)

\* C37 as stated: a timer of the session store removes a reservation marked
\* used no earlier than one hour after the marking: when a callback takes a
\* used reservation out of the store, the removal scheduled by
\* markSessionAsUsed for it, if still pending, is already due.
C37_UsedKeptOneHour ==
  (last.op = "timer" /\ last.session # Null /\ last.session.used) =>
     \A t \in timers :
        (t.kind = "used" /\ t.sid = last.sid) => last.now >= t.due

\* C38: a step of cleanupExpiredSessions removes exactly the stored sessions
\* with now > expiresAt, returns their number and leaves every other session
\* and every timer as it was; a step of getSessionStats changes neither the
\* store nor the timers and counts the sessions with now > expiresAt as
\* expired, the others as used or active by their flag, so that the total is
\* the sum of the three.
C38_SweepAndStats ==
  [][ /\ last'.op = "cleanup" =>
           LET expired == {sid \in DOMAIN sessions : clock > sessions[sid].expiresAt}
           IN /\ DOMAIN sessions' = DOMAIN sessions \ expired
              /\ \A sid \in DOMAIN sessions' : sessions'[sid] = sessions[sid]
              /\ last'.removed = Cardinality(expired)
              /\ timers' = timers
      /\ last'.op = "stats" =>
           LET expired == {sid \in DOMAIN sessions : clock > sessions[sid].expiresAt}
               used == {sid \in DOMAIN sessions : sessions[sid].used} \ expired
               active == (DOMAIN sessions \ expired) \ used
           IN /\ sessions' = sessions
              /\ timers' = timers
              /\ last'.stats.expiredSessions = Cardinality(expired)
              /\ last'.stats.usedSessions = Cardinality(used)
              /\ last'.stats.activeSessions = Cardinality(active)
              /\ last'.stats.totalSessions = Cardinality(DOMAIN sessions)
              /\ last'.stats.totalSessions =
                    last'.stats.activeSessions + last'.stats.usedSessions
                      + last'.stats.expiredSessions ]_vars

\* A sweep made exactly at the expiresAt of a used reservation has removed
\* nothing.
C38_Witness ==
  /\ last.op = "cleanup"
  /\ last.removed = 0
  /\ \E sid \in DOMAIN sessions :
        sessions[sid].used /\ last.now = sessions[sid].expiresAt

\* C39: when the getAccounts lookup of isAccountAvailable rejects, Prepare and
\* the direct creation answer 400 Validation Error "Account name is already
\* taken" and the handler ends: the session store, its timers, the count of
\* issued sessions, the emergency directory and the broadcast counts are as
\* before, no operation is sent and no handler is left waiting for a
\* broadcast that was not waiting before.
C39_LookupFailureIsUnavailable ==
  [][ (/\ last'.op \in {"prepared", "available"}
       /\ last.op = "idle"
       /\ "rejected" \in DOMAIN last'.accounts)
      => /\ last'.resp = NameTaken
         /\ ~last'.available
         /\ sessions' = sessions /\ timers' = timers /\ issued' = issued
         /\ emergency' = emergency
         /\ broadcasts' = broadcasts /\ consumed' = consumed
         /\ Len(pending') = Len(pending) - 1
         /\ \A j \in 1..Len(pending') : \E k \in 1..Len(pending) : pending'[j] = pending[k]
         /\ last'.op = "available" => last'.sent = Null ]_vars

\* A Prepare whose availability lookup failed has been answered as for a
\* taken name.
C39_Witness ==
  /\ last.op = "prepared"
  /\ "rejected" \in DOMAIN last.accounts
  /\ last.resp = NameTaken
  /\ sessions = << >> /\ emergency = << >>

\* C40: when the broadcast of POST /create-claimed-account rejects, the
\* response is chosen by the fragments its message contains: 502 No Claimed
\* Accounts for "no claimed accounts" or "pending claimed accounts"; failing
\* that, 400 Validation Error "Account name is already taken" for "already
\* exists" or "taken"; failing both, 502 Blockchain Error; the handler ends
\* there: nothing is written to the emergency directory and no second
\* broadcast for the session is issued or left in flight.
C40_FailureClassified ==
  (last.op = "created" /\ "message" \in DOMAIN last.result) =>
     LET credits == last.result.has \cap {"no claimed accounts", "pending claimed accounts"} # {}
         name == last.result.has \cap {"already exists", "taken"} # {}
     IN /\ credits =>
             /\ last.resp.status = 502 /\ last.resp.error = "No Claimed Accounts"
             /\ last.resp.hive_error = last.result.message
        /\ (~credits /\ name) =>
             /\ last.resp.status = 400 /\ last.resp.error = "Validation Error"
             /\ last.resp.message = "Account name is already taken"
             /\ last.resp.hive_error = last.result.message
        /\ (~credits /\ ~name) =>
             /\ last.resp.status = 502 /\ last.resp.error = "Blockchain Error"
             /\ last.resp.details = last.result.message
        /\ emergency = last.before
        /\ last.sid # Absent =>
             /\ broadcasts[last.sid] = 1
             /\ finalized[last.sid].result = "failed"
             /\ \A i \in 1..Len(pending) :
                   ~(pending[i].route = "create" /\ pending[i].await = "broadcast"
                     /\ pending[i].sid = last.sid)

\* A session-mode broadcast has failed with a message that has a fragment of
\* both categories and was answered No Claimed Accounts.
C40_Witness ==
  /\ last.op = "created"
  /\ last.sid # Absent
  /\ "message" \in DOMAIN last.result
  /\ {"taken", "no claimed accounts"} \subseteq last.result.has
  /\ last.resp.error = "No Claimed Accounts"

====
